---- MODULE Spec2Model ----
(***************************************************************************)
(* flexiGIF: the LZW recompression pipeline.                               *)
(*                                                                         *)
(*   literal stream -> LzwEncoder (right-to-left scoring of m_best,        *)
(*   optimize, merge) -> bit vector -> container writer -> LzwDecoder      *)
(*                                                                         *)
(* Seven specifications share the variables:                               *)
(*   Spec      the pipeline of main() on one short literal stream          *)
(*   SpecZ     the same pipeline on .Z streams, with 9-bit codes and with  *)
(*             codes that are 16 bits wide from the first code, so that    *)
(*             dictionary restarts occur                                   *)
(*   SpecFrame GifImage::writeOptimized alone, on long bit vectors         *)
(*   SpecFile  main() from the bytes of INPUTFILE to the bytes of          *)
(*             OUTPUTFILE and the exit code                                *)
(*   SpecBlock one call of LzwEncoder::optimizePartial, one iteration of   *)
(*             its loop per step                                           *)
(*   SpecReader the bit readers: BinaryInputBuffer on unframed bytes and   *)
(*             LzwDecoder::getLzwBits on the same bytes in sub-blocks      *)
(*   SpecInterlace GifImage::setInterlacing on one-frame pictures          *)
(*                                                                         *)
(* Byte sequences are TLA+ sequences; the source indexes them from 0, so   *)
(* the byte at source index i is At(s, i) == s[i + 1].  Bit vectors are    *)
(* sequences over {0, 1}.                                                  *)
(***************************************************************************)
EXTENDS Integers, Sequences, FiniteSets, TLC

(***************************************************************************)
(* Program constants                                                       *)
(***************************************************************************)
Unknown == -1
NoPrevious == -1
GifMaxCodeLength == 12
LzwMaxCodeLength == 16
RestartCodeSize == 16
ZMinCodeSize == 8
GifMaxToken == 20000
GifMaxDictionary == 4096
MaxBitsPerBlock == 2040
Trailer == 59

(***************************************************************************)
(* Bounds of the model                                                     *)
(***************************************************************************)
\* every literal stream over {0, 1} of length 1..MaxLen is an input
MaxLen == 4
\* alignments 1..MaxAlign
MaxAlign == 2

(***************************************************************************)
(* Arithmetic helpers                                                      *)
(***************************************************************************)
Min(a, b) == IF a < b THEN a ELSE b

At(s, i) == s[i + 1]

\* (t & (t - 1)) == 0 on unsigned int: true of 0 and of the powers of two
IsPowerOfTwo(t) == t = 0 \/ \E k \in 0..30 : t = 2^k

getMinBitsMutant(token) == CHOOSE r \in 1..30 : token + 1 < 2^r /\ (r = 1 \/ 2^(r - 1) <= token + 1)

\* LzwEncoder::getMinBits: number of bits of token (1 for token 0)
getMinBits(token) == CHOOSE r \in 1..30 : token < 2^r /\ (r = 1 \/ 2^(r - 1) <= token)

\* LzwEncoder::add: token's numBits low bits, least significant first
add(stream, token, numBits) == stream \o [k \in 1..numBits |-> (token \div 2^(k - 1)) % 2]

(***************************************************************************)
(* LzwEncoder: dictionary trie.  m_dictionary is sparse here: a function   *)
(* from <<code, byte>> to the child code; a pair outside its domain holds  *)
(* Unknown.                                                                *)
(***************************************************************************)
EmptyDictionary == [p \in {} |-> Unknown]

Child(dict, code, b) == IF <<code, b>> \in DOMAIN dict THEN dict[<<code, b>>] ELSE Unknown

SetChild(dict, code, b, v) == [p \in (DOMAIN dict) \cup {<<code, b>>} |-> IF p = <<code, b>> THEN v ELSE dict[p]]

\* the code reached from the first literal after walking bytes from+1 .. from+length-1
RECURSIVE WalkCode(_, _, _, _, _)
WalkCode(data, dict, code, from, steps) ==
  IF steps = 0 THEN code
  ELSE WalkCode(data, dict, Child(dict, code, At(data, from)), from + 1, steps - 1)

addCodeMutant(data, dict, dictSize, maxDictionary, from, length) ==
  LET code == WalkCode(data, dict, At(data, from), from + 1, length - 1)
      next == from + length
      grow == next < Len(data) /\ dictSize < maxDictionary
      lastByte == At(data, next)
  IN  [code     |-> code,
       dict     |-> IF grow THEN SetChild(dict, code, lastByte, dictSize) ELSE dict,
       dictSize |-> IF grow THEN dictSize + 1 ELSE dictSize]

\* LzwEncoder::addCode
addCode(data, dict, dictSize, maxDictionary, from, length) ==
  LET code == WalkCode(data, dict, At(data, from), from + 1, length - 1)
      next == from + length
      grow == next < Len(data) /\ dictSize < maxDictionary
      lastByte == At(data, next)
  IN  [code     |-> code,
       dict     |-> IF grow /\ Child(dict, code, lastByte) = Unknown
                    THEN SetChild(dict, code, lastByte, dictSize) ELSE dict,
       dictSize |-> IF grow THEN dictSize + 1 ELSE dictSize]

RECURSIVE MatchFrom(_, _, _, _, _, _)
MatchFrom(data, dict, code, from, length, maxLength) ==
  IF length >= maxLength THEN maxLength
  ELSE LET c == Child(dict, code, At(data, from))
       IN  IF c = Unknown THEN length
           ELSE MatchFrom(data, dict, c, from + 1, length + 1, maxLength)

\* LzwEncoder::findMatch
findMatch(data, dict, from, maxLength) == MatchFrom(data, dict, At(data, from), from + 1, 1, maxLength)

(***************************************************************************)
(* LzwEncoder: m_best and optimizePartial                                  *)
(***************************************************************************)
\* BestBlock(): the default-constructed entry
EmptyBlock == [length |-> 0, bits |-> 0, totalBits |-> 0, tokens |-> 0, nongreedy |-> 0, partial |-> FALSE]

\* m_best before the first optimizePartial call: an empty vector
NoBest == [k \in {} |-> EmptyBlock]

\* m_best.resize(m_data.size() / optimize.alignment + 1 + 1), only when empty
AllocBest(best, n, alignment) ==
  IF DOMAIN best = {} THEN [k \in 0..(n \div alignment + 1) |-> EmptyBlock] ELSE best

\* m_maxDictionary and m_maxCodeLength, set by the constructor
MaxCodeLengthOf(isGif) == IF isGif THEN GifMaxCodeLength ELSE LzwMaxCodeLength
MaxDictionaryOf(isGif) == 2^MaxCodeLengthOf(isGif) - 1

ClearOf(o) == 2^o.minCodeSize
EndOfStreamOf(o) == ClearOf(o) + 1

\* the initial m_dictSize of a block
InitialDictSize(isGif, o) == IF isGif THEN ClearOf(o) + 2 ELSE ClearOf(o) + 1

\* "don't split long runs": first and last byte, then bytes 1 .. lastMatchByte - 2
AllTheSame(data, i, matchLength) ==
  LET lastMatchByte == matchLength - 1
  IN  /\ At(data, i) = At(data, i + lastMatchByte)
      /\ \A scan \in 1..(lastMatchByte - 2) : At(data, i) = At(data, i + scan)

RECURSIVE TryShorterMutant(_, _, _, _, _, _, _)
TryShorterMutant(data, dict, i, remaining, atLeast, shorter, acc) ==
  IF shorter <= 0 THEN acc
  ELSE LET next == findMatch(data, dict, i + shorter, remaining - shorter)
           sum  == shorter + next
           acc2 == IF sum >= atLeast /\ sum >= acc.best
                   THEN [best |-> sum, choice |-> shorter] ELSE acc
       IN  TryShorterMutant(data, dict, i, remaining, atLeast, shorter - 1, acc2)

\* the loop over the shorter lengths matchLength - 1 .. 1; acc = [best, choice]
RECURSIVE TryShorter(_, _, _, _, _, _, _)
TryShorter(data, dict, i, remaining, atLeast, shorter, acc) ==
  IF shorter <= 0 THEN acc
  ELSE LET next == findMatch(data, dict, i + shorter, remaining - shorter)
           sum  == shorter + next
           acc2 == IF sum >= atLeast /\ sum > acc.best
                   THEN [best |-> sum, choice |-> shorter] ELSE acc
       IN  TryShorter(data, dict, i, remaining, atLeast, shorter - 1, acc2)

TryNonGreedyMutant(data, o, i, matchLength) ==
  /\ ~o.greedy
  /\ ~(matchLength = 1 \/ matchLength < o.minNonGreedyMatch)
  /\ ~(i + matchLength + 4 > Len(data))

\* whether the flexible parsing block is entered at i with greedy length matchLength
TryNonGreedy(data, o, i, matchLength) ==
  /\ ~o.greedy
  /\ ~(matchLength = 1 \/ matchLength < o.minNonGreedyMatch)
  /\ ~(i + matchLength + 4 >= Len(data))

\* no match has been looked for yet
NoMatch == [len |-> 0, nongreedy |-> 0, greedy |-> 0, lookahead |-> FALSE]

\* match finding of one emission point: the chosen length len, whether it is non-greedy,
\* the length of the greedy match and whether the flexible parsing block was entered.
\* Inside the flexible parsing block tryNonGreedy is only assigned (run guard), never
\* read again, so the lookahead runs whatever AllTheSame says.
ChooseMatch(data, dict, o, i, remaining) ==
  LET matchLength == findMatch(data, dict, i, remaining)
  IN  IF ~TryNonGreedy(data, o, i, matchLength)
      THEN [len |-> matchLength, nongreedy |-> 0, greedy |-> matchLength, lookahead |-> FALSE]
      ELSE LET guard   == ~o.splitRuns /\ AllTheSame(data, i, matchLength)
               second  == findMatch(data, dict, i + matchLength, remaining - matchLength)
               best    == matchLength + second
               atLeast == best + o.minImprovement
               r == TryShorter(data, dict, i, remaining, atLeast, matchLength - 1,
                               [best |-> best, choice |-> matchLength])
           IN  IF r.choice < matchLength
               THEN [len |-> r.choice, nongreedy |-> 1, greedy |-> matchLength, lookahead |-> TRUE]
               ELSE [len |-> matchLength, nongreedy |-> 0, greedy |-> matchLength, lookahead |-> TRUE]

NextCodeSizeMutant(isGif, dictSize, codeSize) ==
  IF dictSize < MaxDictionaryOf(isGif)
     /\ dictSize - 2 = 2^codeSize /\ codeSize < MaxCodeLengthOf(isGif)
     /\ ~(~isGif /\ dictSize - 1 = 256)
  THEN codeSize + 1 ELSE codeSize

\* "need one more bit per code ?"
NextCodeSize(isGif, dictSize, codeSize) ==
  IF dictSize < MaxDictionaryOf(isGif)
     /\ IsPowerOfTwo(dictSize - 1) /\ codeSize < MaxCodeLengthOf(isGif)
     /\ ~(~isGif /\ dictSize - 1 = 256)
  THEN codeSize + 1 ELSE codeSize

\* the extra bits needed if the block ended here (cost evaluation)
CloseCost(isGif, dictSize, codeSize, numBits, numTokens, isLastByte) ==
  LET add0 == codeSize + (IF IsPowerOfTwo(dictSize - 1) /\ codeSize < MaxCodeLengthOf(isGif) THEN 1 ELSE 0)
  IN  IF isGif THEN add0
      ELSE LET add1 == IF isLastByte THEN 0 ELSE add0
               add2 == add1 + (IF numBits % 8 # 0 THEN 8 - (numBits % 8) ELSE 0)
               mod8 == (numTokens + 1) % 8
               gap  == IF mod8 = 0 THEN 0 ELSE 8 - mod8
           IN  IF isLastByte THEN add2 ELSE add2 + codeSize * gap

PartialStartMutant(isGif, o, from, best) ==
  [i |-> from,
   dict |-> [p \in (0..(ClearOf(o) - 1)) \X (0..(IF isGif THEN ClearOf(o) - 1 ELSE -1))
               |-> InitialDictSize(isGif, o)],
   dictSize |-> InitialDictSize(isGif, o) + 1,
   numBits |-> 0, numTokens |-> 0, numNonGreedy |-> 0, matchLength |-> 0,
   codeSize |-> getMinBits(InitialDictSize(isGif, o)),
   bits |-> <<>>, codes |-> <<>>, best |-> best, stop |-> FALSE, match |-> NoMatch]

\* the state of the loop over i when the block starts
PartialStart(isGif, o, from, best) ==
  [i |-> from, dict |-> EmptyDictionary, dictSize |-> InitialDictSize(isGif, o),
   numBits |-> 0, numTokens |-> 0, numNonGreedy |-> 0, matchLength |-> 0,
   codeSize |-> getMinBits(InitialDictSize(isGif, o)),
   bits |-> <<>>, codes |-> <<>>, best |-> best, stop |-> FALSE, match |-> NoMatch]

\* one iteration of "for (i = from; i <= lastPos; i++)"; stop records the break
SkipRestartMutant(isGif, isLastByte, codeSize) == FALSE

\* "only allow restart if clear code can be encoded in 16 bits": no cost is recorded for
\* a .Z block that ends, before the end of the data, on a narrower code
SkipRestart(isGif, isLastByte, codeSize) == ~isGif /\ ~isLastByte /\ codeSize < RestartCodeSize

BestBlockMutant(numBytes, trueBits, totalBits, numTokens, numNonGreedy, isPartial) ==
  [length |-> numBytes, bits |-> 0, totalBits |-> totalBits,
   tokens |-> numTokens, nongreedy |-> numNonGreedy, partial |-> isPartial]

BestBlockShortMutant(numBytes, trueBits, totalBits, numTokens, numNonGreedy, isPartial) ==
  [length |-> numBytes - 1, bits |-> trueBits, totalBits |-> totalBits,
   tokens |-> numTokens, nongreedy |-> numNonGreedy, partial |-> isPartial]

\* "better path ?": the entry written to m_best[fromAligned]
BestBlock(numBytes, trueBits, totalBits, numTokens, numNonGreedy, isPartial) ==
  [length |-> numBytes, bits |-> trueBits, totalBits |-> totalBits,
   tokens |-> numTokens, nongreedy |-> numNonGreedy, partial |-> isPartial]

PartialStep(data, isGif, o, from, length, emit, st) ==
  LET i        == st.i
      numBytes == i - from + 1
      fromAligned == from \div o.alignment
      needMatch == st.matchLength = 0
      limit == needMatch /\ (\/ (o.maxDictionary > 0 /\ st.dictSize >= o.maxDictionary)
                             \/ (o.maxTokens > 0 /\ st.numTokens >= o.maxTokens))
      remaining == length + from - i
      \* m is the match chosen at i, a the code addCode returns for it
      Emit(m, a) ==
      LET codeSize == IF needMatch THEN NextCodeSize(isGif, st.dictSize, st.codeSize) ELSE st.codeSize
          dict     == IF needMatch THEN a.dict ELSE st.dict
          dictSize == IF needMatch THEN a.dictSize ELSE st.dictSize
          numBits  == IF needMatch THEN st.numBits + codeSize ELSE st.numBits
          numTokens == IF needMatch THEN st.numTokens + 1 ELSE st.numTokens
          numNonGreedy == IF needMatch THEN st.numNonGreedy + m.nongreedy ELSE st.numNonGreedy
          matchLength == (IF needMatch THEN m.len ELSE st.matchLength) - 1
          bits     == IF needMatch /\ emit THEN add(st.bits, a.code, codeSize) ELSE st.bits
          codes    == IF needMatch /\ emit
                      THEN Append(st.codes, [code |-> a.code, width |-> codeSize, pos |-> i, dictSize |-> st.dictSize])
                      ELSE st.codes
          \* ----- cost evaluation -----
          isLastByte  == i + 1 = Len(data)
          next        == i + 1
          nextAligned == IF o.alignment > 1 THEN (next + o.alignment - 1) \div o.alignment ELSE next
          skip == \/ o.readOnlyBest
                  \/ (~isLastByte /\ st.best[nextAligned].totalBits = 0)
                  \/ (o.alignment > 1 /\ numBytes % o.alignment # 0 /\ ~isLastByte)
                  \/ SkipRestart(isGif, isLastByte, codeSize)
          trueBits  == numBits + CloseCost(isGif, dictSize, codeSize, numBits, numTokens, isLastByte)
          totalBits == trueBits + st.best[nextAligned].totalBits
          old       == st.best[fromAligned]
          best == IF ~skip /\ (old.totalBits = 0 \/ old.totalBits >= totalBits)
                  THEN [st.best EXCEPT ![fromAligned] =
                          BestBlock(numBytes, trueBits, totalBits, numTokens, numNonGreedy, matchLength > 0)]
                  ELSE st.best
      IN  [i |-> i + 1, dict |-> dict, dictSize |-> dictSize, numBits |-> numBits,
           numTokens |-> numTokens, numNonGreedy |-> numNonGreedy, matchLength |-> matchLength,
           codeSize |-> codeSize, bits |-> bits, codes |-> codes, best |-> best, stop |-> FALSE,
           match |-> IF needMatch THEN m ELSE st.match]
      Match(m) == Emit(m, addCode(data, st.dict, st.dictSize, MaxDictionaryOf(isGif), i, m.len))
  IN  IF limit THEN [st EXCEPT !.stop = TRUE]
      ELSE Match(ChooseMatch(data, st.dict, o, i, remaining))

RECURSIVE PartialLoop(_, _, _, _, _, _, _)
PartialLoop(data, isGif, o, from, length, emit, st) ==
  IF st.stop \/ st.i > from + length - 1 THEN st
  ELSE CHOOSE r \in {PartialLoop(data, isGif, o, from, length, emit, s) :
                       s \in {PartialStep(data, isGif, o, from, length, emit, st)}} : TRUE

Zeros(n) == [k \in 1..n |-> 0]

ClosingCodeMutant(isFinal, o) == ClearOf(o)

\* the control code that ends a GIF block
ClosingCode(isFinal, o) == IF isFinal THEN EndOfStreamOf(o) ELSE ClearOf(o)

ZeroPaddingMutant(codeSize, numTokens) ==
  LET mod8 == (numTokens + 1) % 8
      gap  == IF mod8 = 0 THEN 0 ELSE 8 - mod8
  IN  8 * ((codeSize * gap) \div 8)

\* "a block's number of token has to be a multiple of 8": the zero bits after a .Z clear
ZeroPadding(codeSize, numTokens) ==
  LET mod8 == numTokens % 8
      gap  == IF mod8 = 0 THEN 0 ELSE 8 - mod8
  IN  8 * ((codeSize * gap) \div 8)

\* "end of block: emit either clear or endOfStream code"; st is the loop's final state
CloseBlock(isGif, o, isFinal, st, endPos) ==
  LET codeSize == getMinBits(st.dictSize - 1)
      entry(c) == [code |-> c, width |-> codeSize, pos |-> endPos, dictSize |-> st.dictSize]
  IN  IF isGif
      THEN [bits  |-> add(st.bits, ClosingCode(isFinal, o), codeSize),
            codes |-> Append(st.codes, entry(ClosingCode(isFinal, o))),
            pad   |-> 0, err |-> "none"]
      ELSE LET b1 == IF isFinal THEN st.bits ELSE add(st.bits, ClearOf(o), codeSize)
               c1 == IF isFinal THEN st.codes ELSE Append(st.codes, entry(ClearOf(o)))
               numTokens == IF isFinal THEN st.numTokens ELSE st.numTokens + 1
               fill == IF Len(b1) % 8 # 0 THEN 8 - (Len(b1) % 8) ELSE 0
               b2 == b1 \o Zeros(fill)
           IN  IF isFinal THEN [bits |-> b2, codes |-> c1, pad |-> fill, err |-> "none"]
               ELSE IF codeSize # RestartCodeSize
               THEN [bits |-> b2, codes |-> c1, pad |-> fill,
                     err |-> "flexiGIF currently only supports restarts with code size = 16"]
               ELSE [bits  |-> b2 \o Zeros(ZeroPadding(codeSize, numTokens)),
                     codes |-> c1,
                     pad   |-> fill + ZeroPadding(codeSize, numTokens), err |-> "none"]

\* LzwEncoder::optimizePartial: [bits, codes, pad, best, err]; codes lists the add() calls
\* (code, width, input position, m_dictSize before the code) and pad counts the zero
\* bits pushed after the closing code
NonAlignedMutant(from, o) == FALSE

\* "if (from % optimize.alignment != 0)": the block starts off the alignment grid
NonAligned(from, o) == from % o.alignment # 0

\* "no recomputation in second pass of --prettygood mode if previous non-greedy search
\* was unsuccessful": entry is m_best[fromAligned]
SkipSecondPass(o, emit, entry) ==
  o.greedy /\ o.avoidNonGreedyAgain /\ ~emit /\ entry.nongreedy = 0 /\ entry.length > 0

optimizePartial(data, isGif, best0, from, maxLength, emit, isFinal, o) ==
  LET best   == AllocBest(best0, Len(data), o.alignment)
      length == IF Len(data) - from > maxLength /\ maxLength # 0 THEN maxLength ELSE Len(data) - from
      fromAligned == from \div o.alignment
      nothing == [bits |-> <<>>, codes |-> <<>>, pad |-> 0, best |-> best, err |-> "none"]
  IN  IF NonAligned(from, o)
      THEN [nothing EXCEPT !.err = "non-aligned block start is forbidden"]
      ELSE IF SkipSecondPass(o, emit, best[fromAligned])
      THEN nothing
      ELSE LET Closed(st, c) ==
                 [bits |-> c.bits, codes |-> c.codes, pad |-> c.pad, best |-> st.best, err |-> c.err]
               Done(st) ==
                 IF ~emit THEN [nothing EXCEPT !.best = st.best]
                 ELSE Closed(st, CloseBlock(isGif, o, isFinal, st, from + length))
           IN  Done(PartialLoop(data, isGif, o, from, length, emit, PartialStart(isGif, o, from, best)))

(***************************************************************************)
(* LzwEncoder::merge and LzwEncoder::optimize                              *)
(***************************************************************************)
\* "optional: prepend clear code": minCodeSize zeros followed by a one
LeadingClear(isGif, o) ==
  IF o.startWithClearCode /\ isGif THEN Append(Zeros(o.minCodeSize), 1) ELSE <<>>

LeadingCodes(isGif, o) ==
  IF o.startWithClearCode /\ isGif
  THEN << [code |-> ClearOf(o), width |-> o.minCodeSize + 1, pos |-> 0, dictSize |-> InitialDictSize(isGif, o)] >>
  ELSE <<>>

\* one iteration of the loop of merge over the restarts; acc = [bits, codes, segs, best,
\* err, pos, o], o being the settings as the earlier iterations left them
MergeStep(data, isGif, restarts, k, acc) ==
  LET isFinal == k = Len(restarts)
      length  == restarts[k] - acc.pos
      hasBest == DOMAIN acc.best # {}
      greedy  == IF hasBest THEN acc.best[acc.pos \div acc.o.alignment].nongreedy = 0 ELSE acc.o.greedy
      o1 == [acc.o EXCEPT !.greedy = greedy,
                          !.avoidNonGreedyAgain = (hasBest /\ greedy) \/ acc.o.avoidNonGreedyAgain,
                          !.readOnlyBest = TRUE]
      err(block) == IF block.err # "none" THEN block.err
                    ELSE IF block.bits = <<>> /\ length > 0
                    THEN "optimization failed due to an internal error" ELSE "none"
      Joined(block) ==
           [bits  |-> acc.bits \o block.bits,
            codes |-> acc.codes \o block.codes,
            segs  |-> Append(acc.segs, [from |-> acc.pos, to |-> restarts[k],
                                        bits |-> Len(block.bits), pad |-> block.pad,
                                        tokens |-> Len(block.codes)]),
            best  |-> block.best, err |-> err(block), pos |-> restarts[k], o |-> o1]
  IN  IF restarts[k] = 0 THEN acc
      ELSE Joined(optimizePartial(data, isGif, acc.best, acc.pos, length, TRUE, isFinal, o1))

RECURSIVE MergeLoop(_, _, _, _, _)
MergeLoop(data, isGif, restarts, k, acc) ==
  IF k > Len(restarts) \/ acc.err # "none" THEN acc
  ELSE CHOOSE r \in {MergeLoop(data, isGif, restarts, k + 1, a) :
                       a \in {MergeStep(data, isGif, restarts, k, acc)}} : TRUE

\* LzwEncoder::merge
merge(data, isGif, best, restarts0, o) ==
  LET start == [bits |-> LeadingClear(isGif, o), codes |-> LeadingCodes(isGif, o), segs |-> <<>>,
                best |-> best, err |-> "none", pos |-> 0, o |-> o]
      restarts == IF restarts0 # <<>> /\ restarts0[Len(restarts0)] < Len(data)
                  THEN Append(restarts0, Len(data)) ELSE restarts0
  IN  IF restarts0 = <<>> THEN start
      ELSE MergeLoop(data, isGif, restarts, 1, start)

RECURSIVE FindRestartsMutant(_, _, _, _, _)
FindRestartsMutant(best, n, alignment, pos, restarts) ==
  IF pos >= n THEN [ok |-> TRUE, restarts |-> restarts]
  ELSE LET length == best[pos \div alignment].length
       IN  IF length = 0 THEN [ok |-> TRUE, restarts |-> Append(restarts, n)]
           ELSE FindRestartsMutant(best, n, alignment, pos + length, Append(restarts, pos + length))

\* the walk of optimize over m_best: [ok, restarts]
RECURSIVE FindRestarts(_, _, _, _, _)
FindRestarts(best, n, alignment, pos, restarts) ==
  IF pos >= n THEN [ok |-> TRUE, restarts |-> restarts]
  ELSE LET length == best[pos \div alignment].length
       IN  IF length = 0 THEN [ok |-> FALSE, restarts |-> restarts]
           ELSE FindRestarts(best, n, alignment, pos + length, Append(restarts, pos + length))

GapError == "you need to choose a smaller alignment value or increase the token limit because there is a gap between two blocks"

\* LzwEncoder::optimize
optimize(data, isGif, best, o) ==
  LET Walked(w) ==
        IF ~w.ok
        THEN [bits |-> <<>>, codes |-> <<>>, segs |-> <<>>, best |-> best, err |-> GapError,
              pos |-> 0, o |-> o]
        ELSE merge(data, isGif, best, w.restarts, o)
  IN  Walked(FindRestarts(best, Len(data), o.alignment, 0, <<>>))

(***************************************************************************)
(* BinaryInputBuffer over a file (a sequence of bytes).  A reader is a     *)
(* record: pos = bits consumed, left = m_bitsLeftInCurrentBlock,           *)
(* count = m_numBitsOriginalLZW, val = the value just read, err = "none",  *)
(* the message of a thrown exception, or "assert" when an assert() of      *)
(* peekBits aborts the process.                                            *)
(***************************************************************************)
NewReader == [pos |-> 0, left |-> 0, count |-> 0, val |-> 0, err |-> "none"]

\* bit k (0-based) of the file, least significant bit of each byte first
FileBit(input, k) == (input[k \div 8 + 1] \div 2^(k % 8)) % 2

RECURSIVE FileBits(_, _, _)
FileBits(input, k, n) == IF n = 0 THEN 0 ELSE FileBit(input, k) + 2 * FileBits(input, k + 1, n - 1)

\* BinaryInputBuffer::getNumBitsLeft
getNumBitsLeft(input, rd) == 8 * Len(input) - rd.pos

\* BinaryInputBuffer::peekBits
peekBits(input, rd, numBits) ==
  IF rd.err # "none" THEN rd
  ELSE IF numBits > 16 \/ numBits > getNumBitsLeft(input, rd) THEN [rd EXCEPT !.err = "assert"]
  ELSE [rd EXCEPT !.val = FileBits(input, rd.pos, numBits)]

\* BinaryInputBuffer::getBits (peekBits, then removeBits)
getBits(input, rd, numBits) ==
  LET removeBits(r) == IF r.err # "none" THEN r ELSE [r EXCEPT !.pos = @ + numBits]
  IN  removeBits(peekBits(input, rd, numBits))

\* BinaryInputBuffer::getByte
getByte(input, rd) == getBits(input, rd, 8)

\* LzwDecoder::getLzwBits
getLzwBits(input, isGif, rd, numBits) ==
  IF rd.err # "none" THEN rd
  ELSE IF numBits = 0 THEN [rd EXCEPT !.val = 0]
  ELSE LET r0 == [rd EXCEPT !.count = @ + numBits]
           shift == r0.left
           rest  == numBits - r0.left
           \* rl has read the low bits, rs the size byte of the next sub-block, rh the high bits
           High(rl, rs, rh) ==
             LET low  == rl.val
                 size == 8 * rs.val
             IN  IF rs.err # "none" THEN rs
                 ELSE IF size < rest THEN [rs EXCEPT !.left = size, !.err = "too few bits available in unlzw"]
                 ELSE IF rh.err # "none" THEN [rh EXCEPT !.left = size]
                 ELSE [rh EXCEPT !.left = size - rest, !.val = low + rh.val * 2^shift]
           Size(rl, rs) == High(rl, rs, getBits(input, rs, rest))
           Low(rl) == Size(rl, getByte(input, rl))
       IN  IF ~isGif THEN getBits(input, r0, numBits)
           ELSE IF numBits <= r0.left
           THEN getBits(input, [r0 EXCEPT !.left = @ - numBits], numBits)
           ELSE Low(IF r0.left > 0 THEN getBits(input, r0, r0.left) ELSE [r0 EXCEPT !.val = 0])

(***************************************************************************)
(* LzwDecoder.  The look-up table is its size plus the entries added after *)
(* the literals: codes below clear are [previous |-> NoPrevious, last |->  *)
(* code, length |-> 1].                                                    *)
(***************************************************************************)
LutEntry(lut, clear, code) ==
  IF code < clear THEN [previous |-> NoPrevious, last |-> code, length |-> 1]
  ELSE IF code \in DOMAIN lut THEN lut[code]
  ELSE [previous |-> 0, last |-> 0, length |-> 0]

\* LzwDecoder::decode: the bytes of code, found by walking the parents backwards
RECURSIVE decode(_, _, _)
decode(lut, clear, code) ==
  LET e == LutEntry(lut, clear, code)
  IN  IF e.length = 1 THEN <<e.last>>
      ELSE IF e.length <= 0 THEN <<>>
      ELSE Append(decode(lut, clear, e.previous), e.last)

InitialLutSize(isGif, clear) == IF isGif THEN clear + 2 ELSE clear + 1

EmptyLut == [c \in {} |-> 0]

\* "continue with next byte, remove garbage bytes, too": gap reads of codeSize bits
RECURSIVE SkipGap(_, _, _, _)
SkipGap(input, rd, codeSize, gap) ==
  IF gap = 0 THEN rd ELSE SkipGap(input, getBits(input, rd, codeSize), codeSize, gap - 1)

GapOf(numTokensBlock) == IF numTokensBlock % 8 = 0 THEN 0 ELSE 8 - (numTokensBlock % 8)

\* "reset dictionary ?": the body of "while (token == clear)"; ds.rd has just read the clear code
DecodeReset(input, isGif, minCodeSize, ds) ==
  LET clear == 2^minCodeSize
      \* r2 has skipped the leftover bits and the gap, r3 has read the block's first token
      First(r2, r3) ==
        LET skipped == [at |-> ds.rd.pos, bits |-> r2.pos - ds.rd.pos]
            base == [ds EXCEPT !.rd = r3, !.lutSize = InitialLutSize(isGif, clear), !.lut = EmptyLut,
                               !.codeSize = minCodeSize + 1, !.numTokensBlock = 1, !.token = r3.val,
                               !.skips = Append(@, skipped), !.widths = Append(@, minCodeSize + 1)]
        IN  IF r3.err # "none" THEN [base EXCEPT !.err = r3.err]
            ELSE IF r3.val > clear - 1 THEN [base EXCEPT !.err = "block starts with an undefined value/color"]
            ELSE [base EXCEPT !.bytes = Append(@, r3.val)]
      Gap(r2) == First(r2, getLzwBits(input, isGif, r2, minCodeSize + 1))
      Leftover(r1) == Gap(IF isGif THEN r1 ELSE SkipGap(input, r1, ds.codeSize, GapOf(ds.numTokensBlock)))
  IN  Leftover(IF ~isGif /\ ds.rd.count % 8 # 0
               THEN getLzwBits(input, isGif, ds.rd, 8 - (ds.rd.count % 8)) ELSE ds.rd)

NoEndOfStream == -1

DecoderEndOfStream(isGif, clear) == IF isGif THEN clear + 1 ELSE NoEndOfStream

\* "pass through first token": leading clear codes are skipped
RECURSIVE FirstToken(_, _, _, _, _)
FirstToken(input, isGif, rd, codeSize, clear) ==
  LET Skip(r) == IF r.err # "none" \/ r.val # clear THEN r
                 ELSE FirstToken(input, isGif, r, codeSize, clear)
  IN  Skip(getLzwBits(input, isGif, rd, codeSize))

\* the decoder's state when its main loop is entered
DecodeStart(input, isGif, minCodeSize, rd0) ==
  LET clear == 2^minCodeSize
      Started(first) ==
        LET ds == [rd |-> first, lutSize |-> InitialLutSize(isGif, clear), lut |-> EmptyLut, bytes |-> <<>>,
                   codeSize |-> minCodeSize + 1, token |-> first.val, numTokensBlock |-> 1,
                   skips |-> <<>>, done |-> FALSE, err |-> first.err,
                   widths |-> [k \in 1..(first.count \div (minCodeSize + 1)) |-> minCodeSize + 1]]
        IN  IF first.err # "none" THEN ds
            ELSE IF first.val >= ds.lutSize THEN [ds EXCEPT !.err = "invalid token"]
            ELSE IF first.val # DecoderEndOfStream(isGif, clear) THEN [ds EXCEPT !.bytes = <<first.val>>]
            ELSE ds
  IN  Started(FirstToken(input, isGif, [rd0 EXCEPT !.left = 0, !.count = 0], minCodeSize + 1, clear))

\* "one more bit per code ?"
DecoderCodeSize(lutSize, codeSize, maxCodeSize) ==
  IF lutSize = 2^codeSize /\ codeSize < maxCodeSize THEN codeSize + 1 ELSE codeSize

\* one iteration of "while (token != endOfStream)"
DecodeStep(input, isGif, minCodeSize, maxCodeSize, ds) ==
  LET clear     == 2^minCodeSize
      MaxToken  == 2^maxCodeSize
      codeSize  == DecoderCodeSize(ds.lutSize, ds.codeSize, maxCodeSize)
      prevToken == ds.token
      addLength == LutEntry(ds.lut, clear, prevToken).length + 1
      LastFirst(prev) == Append(prev, prev[1])
      \* d1 is the state after the token was read, out the bytes it stands for
      Output(d1, out) ==
        LET added == [previous |-> prevToken, last |-> out[1], length |-> addLength]
        IN  [d1 EXCEPT !.bytes = @ \o out,
                       !.lut = IF ds.lutSize < MaxToken
                               THEN [c \in (DOMAIN ds.lut) \cup {ds.lutSize} |->
                                       IF c = ds.lutSize THEN added ELSE ds.lut[c]]
                               ELSE @,
                       !.lutSize = IF ds.lutSize < MaxToken THEN @ + 1 ELSE @]
      Token(r, d1) ==
        LET token == r.val
            known == token < ds.lutSize
        IN  IF r.err # "none"
            THEN [ds EXCEPT !.rd = r, !.codeSize = codeSize, !.err = r.err, !.widths = Append(@, codeSize)]
            ELSE IF token > ds.lutSize THEN [d1 EXCEPT !.err = "invalid token"]
            ELSE IF token = clear THEN DecodeReset(input, isGif, minCodeSize, d1)
            ELSE IF token = DecoderEndOfStream(isGif, clear) THEN [d1 EXCEPT !.done = TRUE]
            ELSE IF ~known /\ ds.lutSize >= MaxToken THEN [d1 EXCEPT !.err = "dictionary too large"]
            ELSE Output(d1, IF known THEN decode(ds.lut, clear, token)
                            ELSE LastFirst(decode(ds.lut, clear, prevToken)))
      Read(r) == Token(r, [ds EXCEPT !.rd = r, !.codeSize = codeSize, !.token = r.val,
                                     !.numTokensBlock = @ + 1, !.widths = Append(@, codeSize)])
  IN  IF ~isGif /\ codeSize > getNumBitsLeft(input, ds.rd)
      THEN [ds EXCEPT !.codeSize = codeSize, !.done = TRUE]
      ELSE Read(getLzwBits(input, isGif, ds.rd, codeSize))

RECURSIVE DecodeLoop(_, _, _, _, _)
DecodeLoop(input, isGif, minCodeSize, maxCodeSize, ds) ==
  IF ds.err # "none" \/ ds.done \/ ds.token = DecoderEndOfStream(isGif, 2^minCodeSize) THEN ds
  ELSE CHOOSE r \in {DecodeLoop(input, isGif, minCodeSize, maxCodeSize, d) :
                       d \in {DecodeStep(input, isGif, minCodeSize, maxCodeSize, ds)}} : TRUE

\* "process files where a few bytes are wasted"
RECURSIVE SkipWasted(_, _, _)
SkipWasted(input, rd, unusedBits) ==
  IF rd.err # "none" THEN rd
  ELSE IF unusedBits <= 8 THEN getLzwBits(input, TRUE, rd, unusedBits)
  ELSE CHOOSE r \in {SkipWasted(input, r1, unusedBits - 8) : r1 \in {getLzwBits(input, TRUE, rd, 8)}} : TRUE

\* "skip remaining bits" and "GIF only: a zero-sized block must follow"
DecodeFinish(input, isGif, ds) ==
  LET Terminated(r2) ==
        IF r2.err # "none" THEN [ds EXCEPT !.rd = r2, !.err = r2.err]
        ELSE IF isGif /\ r2.val # 0 THEN [ds EXCEPT !.rd = r2, !.err = "LZW data is not properly terminated"]
        ELSE [ds EXCEPT !.rd = r2]
      Unused(r1) == Terminated(IF isGif THEN getByte(input, r1) ELSE r1)
  IN  IF ds.err # "none" THEN ds
      ELSE Unused(IF isGif THEN SkipWasted(input, ds.rd, ds.rd.left) ELSE ds.rd)

\* LzwDecoder::decompress, reading the file from the reader rd0 on:
\* [rd, bytes, skips, widths, err, ...]; skips lists, for every clear code of a .Z stream,
\* the bit offset after it and the number of bits skipped there; widths lists the
\* number of bits asked for at every read of a code
decompress(input, isGif, minCodeSize, maxCodeSize, rd0) ==
  DecodeFinish(input, isGif,
               DecodeLoop(input, isGif, minCodeSize, maxCodeSize,
                          DecodeStart(input, isGif, minCodeSize, rd0)))

(***************************************************************************)
(* Container writers                                                       *)
(***************************************************************************)
PackByteMutant(bits, pos) ==
  LET Bit(k) == IF pos + k < Len(bits) THEN bits[pos + k + 1] ELSE 0
  IN  Bit(7) + 2 * Bit(6) + 4 * Bit(5) + 8 * Bit(4) + 16 * Bit(3) + 32 * Bit(2) + 64 * Bit(1) + 128 * Bit(0)

\* "create one byte": bit k of the byte is current[pos + k], missing bits are 0
PackByte(bits, pos) ==
  LET Bit(k) == IF pos + k < Len(bits) THEN bits[pos + k + 1] ELSE 0
  IN  Bit(0) + 2 * Bit(1) + 4 * Bit(2) + 8 * Bit(3) + 16 * Bit(4) + 32 * Bit(5) + 64 * Bit(6) + 128 * Bit(7)

\* one iteration of "while (pos < current.size())" of GifImage::writeOptimized:
\* the length byte (an unsigned char) and the data bytes of one sub-block
WriteBlock(bits, pos) ==
  LET bitsCurrentBlock == Min(Len(bits) - pos, MaxBitsPerBlock)
      blockSize == ((bitsCurrentBlock + 7) \div 8) % 256
  IN  [bytes |-> <<blockSize>> \o [k \in 1..blockSize |-> PackByte(bits, pos + 8 * (k - 1))],
       pos   |-> Min(pos + 8 * blockSize, Len(bits))]

RECURSIVE WriteBlocks(_, _)
WriteBlocks(bits, pos) ==
  IF pos >= Len(bits) THEN <<>>
  ELSE LET b == WriteBlock(bits, pos) IN b.bytes \o WriteBlocks(bits, b.pos)

\* "add an empty block after each image"
FrameEnd == <<0>>

\* GifImage::writeOptimized for one frame: the bytes that follow the frame's raw header
WriteFrame(codeSize, bits) == <<codeSize>> \o WriteBlocks(bits, 0) \o FrameEnd

MagicByte1 == 31
MagicByte2 == 157

\* Compress::writeOptimized
CompressWrite(settings, bits) ==
  <<MagicByte1, MagicByte2, settings>> \o [k \in 1..((Len(bits) + 7) \div 8) |-> PackByte(bits, 8 * (k - 1))]

(***************************************************************************)
(* GifImage and Compress: loading a file.  The parsers work on the bytes   *)
(* of the file and the number of bytes read so far; err is "none", the     *)
(* message of the exception thrown, or "assert" when a read behind the     *)
(* end of the file aborts the process.                                     *)
(***************************************************************************)
ExtensionMarker == 33
DescriptorMarker == 44

\* GifImage::parseSignature
parseSignature(input) ==
  IF Len(input) < 6 THEN "assert"
  ELSE IF input[1] # 71 \/ input[2] # 73 \/ input[3] # 70 THEN "invalid file signature"
  ELSE IF input[4] # 56 \/ (input[5] # 55 /\ input[5] # 57) \/ input[6] # 97
  THEN "invalid GIF version, only 87a and 89a supported"
  ELSE "none"

\* the colours of a colour map, from the packed byte of a descriptor: bit 7 says there
\* is one, the low 3 bits are its depth minus one
ColorMapSize(packed) == IF packed >= 128 THEN 2^((packed % 8) + 1) ELSE 0

\* GifImage::parseGlobalDescriptor: width, height, packed byte, background colour and
\* aspect ratio, then the global colour map
parseGlobalDescriptor(input, at) ==
  IF at + 7 > Len(input) THEN [err |-> "assert", at |-> at]
  ELSE LET end == at + 7 + 3 * ColorMapSize(input[at + 5])
       IN  IF end > Len(input) THEN [err |-> "assert", at |-> at] ELSE [err |-> "none", at |-> end]

\* "read all its parts": length bytes and contents up to the zero length
RECURSIVE SkipParts(_, _)
SkipParts(input, at) ==
  IF at + 1 > Len(input) THEN [err |-> "assert", at |-> at]
  ELSE IF input[at + 1] = 0 THEN [err |-> "none", at |-> at + 1]
  ELSE IF at + 1 + input[at + 1] > Len(input) THEN [err |-> "assert", at |-> at]
  ELSE SkipParts(input, at + 1 + input[at + 1])

\* GifImage::parseExtensions
RECURSIVE parseExtensions(_, _)
parseExtensions(input, at) ==
  IF at + 1 > Len(input) THEN [err |-> "assert", at |-> at]
  ELSE IF input[at + 1] # ExtensionMarker THEN [err |-> "none", at |-> at]
  ELSE IF at + 2 > Len(input) THEN [err |-> "assert", at |-> at]
  ELSE LET parts == SkipParts(input, at + 2)
       IN  IF parts.err # "none" THEN parts ELSE parseExtensions(input, parts.at)

\* GifImage::parseLocalDescriptor: the identifier, four words, the packed byte and the
\* local colour map
parseLocalDescriptor(input, at) ==
  IF at + 1 > Len(input) THEN [err |-> "assert", at |-> at]
  ELSE IF input[at + 1] # DescriptorMarker
  THEN [err |-> "expected local descriptor, but not found", at |-> at + 1]
  ELSE IF at + 10 > Len(input) THEN [err |-> "assert", at |-> at]
  ELSE LET end == at + 10 + 3 * ColorMapSize(input[at + 10])
       IN  IF end > Len(input) THEN [err |-> "assert", at |-> at] ELSE [err |-> "none", at |-> end]

NoImage == [rawHeader |-> <<>>, frames |-> <<>>, rawTrailer |-> <<>>, err |-> "none"]

\* GifImage::GifImage, "read/copy the last bytes of the file, too"
LoadTrailer(input, at, img) ==
  LET withTrailer == [img EXCEPT !.rawTrailer = <<input[at + 1]>>]
  IN  IF at + 1 < Len(input)
      THEN [withTrailer EXCEPT !.err = "there is still some data left ..."]
      ELSE withTrailer

\* GifImage::GifImage, the loop "decompress LZW": one frame per iteration, until the
\* marker of the trailer is seen or an exception ends the constructor
RECURSIVE LoadFrames(_, _, _)
LoadFrames(input, at, img) ==
  IF at + 1 > Len(input) THEN [img EXCEPT !.err = "assert"]
  ELSE IF input[at + 1] = Trailer THEN LoadTrailer(input, at, img)
  ELSE LET \* d is the parsed local descriptor, lzw the decoder's result on the data behind it
           Decoded(d, lzw) ==
             LET frame == [rawHeader |-> SubSeq(input, at + 1, d.at), codeSize |-> input[d.at + 1],
                           pixels |-> lzw.bytes]
             IN  IF lzw.err # "none" THEN [img EXCEPT !.err = lzw.err]
                 ELSE CHOOSE r \in {LoadFrames(input, next, [img EXCEPT !.frames = Append(@, frame)]) :
                                      next \in {lzw.rd.pos \div 8}} : TRUE
           Described(d) ==
             IF d.err # "none" THEN [img EXCEPT !.err = d.err]
             ELSE IF d.at + 1 > Len(input) THEN [img EXCEPT !.err = "assert"]
             ELSE Decoded(d, decompress(input, TRUE, input[d.at + 1], GifMaxCodeLength,
                                        [NewReader EXCEPT !.pos = 8 * (d.at + 1)]))
           Extended(e) ==
             IF e.err # "none" THEN [img EXCEPT !.err = e.err]
             ELSE Described(parseLocalDescriptor(input, e.at))
       IN  Extended(parseExtensions(input, at))

\* GifImage::GifImage: what the object holds when the constructor returns
GifImageOf(input) ==
  LET sig == parseSignature(input)
      g   == parseGlobalDescriptor(input, 6)
  IN  IF input = <<>> THEN [NoImage EXCEPT !.err = "file not found or empty"]
      ELSE IF sig # "none" THEN [NoImage EXCEPT !.err = sig]
      ELSE IF g.err # "none" THEN [NoImage EXCEPT !.err = g.err]
      ELSE LoadFrames(input, g.at, [NoImage EXCEPT !.rawHeader = SubSeq(input, 1, g.at)])

NoCompress == [settings |-> 0, data |-> <<>>, err |-> "none"]

\* Compress::Compress with loadAsUncompressedIfWrongMagicBytes = false
CompressOf(input) ==
  LET isZ      == input[1] = MagicByte1 \/ input[2] = MagicByte2
      settings == input[3]
      maxBits  == settings % 32
      loaded   == [NoCompress EXCEPT !.settings = settings]
      Decoded(lzw) == IF lzw.err # "none" THEN [loaded EXCEPT !.err = lzw.err]
                      ELSE [loaded EXCEPT !.data = lzw.bytes]
  IN  IF input = <<>> THEN [NoCompress EXCEPT !.err = "file not found or empty"]
      ELSE IF Len(input) < 2 THEN [NoCompress EXCEPT !.err = "assert"]
      ELSE IF ~isZ
      THEN [NoCompress EXCEPT !.err = "file is not a .Z compressed file (magic bytes don't match)"]
      ELSE IF Len(input) < 3 THEN [NoCompress EXCEPT !.err = "assert"]
      ELSE IF (settings \div 128) % 2 = 0 THEN [loaded EXCEPT !.err = "only .Z block mode supported"]
      ELSE IF (settings \div 32) % 4 # 0 THEN [loaded EXCEPT !.err = "unknown .Z format flag found"]
      ELSE Decoded(decompress(input, FALSE, ZMinCodeSize, maxBits, [NewReader EXCEPT !.pos = 24]))

(***************************************************************************)
(* The recompression pipeline of main() on one literal stream              *)
(***************************************************************************)
VARIABLES
  pc,          \* position in main(): "score", "optimize", "write", "decode", "done", "failed"
  data,        \* the literal stream (pixels of a frame, bytes of a .Z file)
  isGif,       \* container flavour
  opt,         \* OptimizationSettings
  smartGreedy, \* --prettygood
  best,        \* LzwEncoder::m_best
  scanI,       \* loop variable i of the right-to-left scoring loop
  out,         \* result of optimize(): bit vector, emitted codes, segments, error
  file,        \* bytes written by writeOptimized
  dec,         \* result of LzwDecoder on the written file
  wpos,        \* writeOptimized: position in the bit vector
  input,       \* bytes of INPUTFILE
  loaded,      \* the GifImage or Compress object main() constructs from INPUTFILE
  optimizedFrames, \* main(): the bit vectors of the frames recompressed so far
  exitCode,    \* "running", or the ReturnCode of main(), or "abort" after a failed assert
  blk          \* one call of LzwEncoder::optimizePartial, run one loop iteration per step

loadVars == <<input, loaded, optimizedFrames, exitCode>>

vars == <<pc, data, isGif, opt, smartGreedy, best, scanI, out, file, dec, wpos,
          input, loaded, optimizedFrames, exitCode, blk>>

\* binary literal streams of length 1 .. n
RECURSIVE StreamsUpTo(_)
StreamsUpTo(n) ==
  IF n = 0 THEN {}
  ELSE StreamsUpTo(n - 1) \cup [1..n -> {0, 1}]

MaxByte(s) == CHOOSE m \in {s[k] : k \in DOMAIN s} : \A k \in DOMAIN s : s[k] <= m

\* token and dictionary limits (-t, -d); 0 switches the limit off
TokenLimits == {0, 2, GifMaxToken}
\* -d: off, or room for a few codes above the literals
DictLimits(mcs) == {0, 2^mcs + 4}

NoOut == [bits |-> <<>>, codes |-> <<>>, segs |-> <<>>, err |-> "none"]
NoDec == [bytes |-> <<>>, err |-> "none"]

\* .Z header byte of the recompressed file: block mode, 16 bits
ZSettings == 144

Settings(mcs, a, clr, mode, mt, md) ==
  [alignment |-> a, minCodeSize |-> mcs, startWithClearCode |-> clr,
   greedy |-> mode = "greedy", minNonGreedyMatch |-> 2, minImprovement |-> 1,
   maxDictionary |-> md, maxTokens |-> mt, splitRuns |-> FALSE,
   readOnlyBest |-> FALSE, avoidNonGreedyAgain |-> mode = "prettygood"]

Modes == {"greedy", "nongreedy", "prettygood"}

\* longer inputs, each with its command line: a final block that ends on a full code
\* width, a stream on which restarts pay, streams with a non-greedy match, a run, and
\* a stream scored with --prettygood and a token limit of 4, and a stream whose best
\* encoding from offset 0 is shorter than from offset 1
SeedInputs ==
  { [data |-> <<0, 0, 0, 0, 0, 1, 0, 1, 1>>, isGif |-> TRUE, smart |-> FALSE,
     opt |-> Settings(3, 1, FALSE, "greedy", 0, 0)],
    [data |-> <<2, 0, 3, 3, 1, 3, 2, 3, 0, 1, 2, 2, 1, 3, 3, 3>>, isGif |-> TRUE, smart |-> FALSE,
     opt |-> Settings(2, 2, FALSE, "greedy", 0, 0)],
    [data |-> <<0, 0, 0, 1, 0, 0, 0, 1, 0, 0, 0>>, isGif |-> TRUE, smart |-> FALSE,
     opt |-> Settings(2, 1, TRUE, "nongreedy", GifMaxToken, 0)],
    [data |-> <<0, 0, 0, 1, 0, 0, 0, 1, 0, 0, 0>>, isGif |-> TRUE, smart |-> TRUE,
     opt |-> Settings(2, 1, TRUE, "prettygood", GifMaxToken, 0)],
    [data |-> <<1, 1, 1, 1, 1, 1, 1, 1, 1, 1>>, isGif |-> TRUE, smart |-> FALSE,
     opt |-> Settings(2, 1, TRUE, "greedy", GifMaxToken, 0)],
    [data |-> <<1, 1, 1, 1, 1, 1, 1, 1, 1, 1>>, isGif |-> FALSE, smart |-> FALSE,
     opt |-> Settings(ZMinCodeSize, 1, FALSE, "greedy", GifMaxToken, 0)],
    [data |-> <<0, 0, 0, 1, 0, 0, 0, 1, 1, 0, 1>>, isGif |-> TRUE, smart |-> TRUE,
     opt |-> Settings(2, 1, TRUE, "prettygood", 4, GifMaxDictionary)],
    [data |-> <<0, 0, 0, 1, 0, 0, 1>>, isGif |-> TRUE, smart |-> FALSE,
     opt |-> Settings(2, 1, FALSE, "greedy", 0, 0)] }

\* every short stream with every command line
ShortInputs(streams, flavours, codeSizes) ==
  { x \in [data : streams, isGif : flavours, smart : BOOLEAN,
           opt : { Settings(mcs, a, clr, mode, mt, md) :
                     mcs \in codeSizes, a \in 1..MaxAlign, clr \in BOOLEAN, mode \in Modes,
                     mt \in TokenLimits, md \in UNION {DictLimits(m) : m \in codeSizes} }] :
      /\ MaxByte(x.data) < 2^x.opt.minCodeSize
      /\ x.smart = x.opt.avoidNonGreedyAgain
      /\ x.opt.maxDictionary \in DictLimits(x.opt.minCodeSize)
      /\ x.isGif => x.opt.minCodeSize < ZMinCodeSize
      /\ ~x.isGif => x.opt.minCodeSize >= ZMinCodeSize /\ ~x.opt.startWithClearCode }

\* no file is involved
NothingLoaded == input = <<>> /\ loaded = NoImage /\ optimizedFrames = <<>> /\ exitCode = "running"

\* no call of optimizePartial is run step by step
NoBlock == [status |-> "none"]

InitPipeline(inputs) ==
  /\ pc = "score"
  /\ \E x \in inputs :
       /\ data = x.data
       /\ isGif = x.isGif
       /\ opt = x.opt
       /\ smartGreedy = x.smart
  /\ best = NoBest
  /\ scanI = Len(data) - 1
  /\ out = NoOut
  /\ file = <<>>
  /\ dec = NoDec
  /\ wpos = 0
  /\ NothingLoaded
  /\ blk = NoBlock

Init == InitPipeline(ShortInputs(StreamsUpTo(MaxLen), BOOLEAN, {2, 3, ZMinCodeSize}) \cup SeedInputs)

\* one iteration of the scoring loop of main(): "estimate cost" and, with --prettygood,
\* "repeat estimation" with greedy search
ScoreAt(d, g, b, i, o, smart) ==
  IF i % o.alignment # 0 THEN b
  ELSE LET Again(b1) ==
             IF smart /\ ~o.greedy
             THEN optimizePartial(d, g, b1, i, 0, FALSE, TRUE, [o EXCEPT !.greedy = TRUE]).best
             ELSE b1
       IN  Again(optimizePartial(d, g, b, i, 0, FALSE, TRUE, o).best)

Score ==
  /\ pc = "score"
  /\ scanI >= 0
  /\ best' = ScoreAt(data, isGif, best, scanI, opt, smartGreedy)
  /\ scanI' = scanI - 1
  /\ UNCHANGED <<pc, data, isGif, opt, smartGreedy, out, file, dec, wpos, input, loaded, optimizedFrames, exitCode, blk>>

\* "final bitstream for current image": encoded.optimize(optimize); an exception ends main()
Optimize ==
  /\ pc = "score"
  /\ scanI < 0
  /\ LET Result(r) ==
           /\ out' = [bits |-> r.bits, codes |-> r.codes, segs |-> r.segs, err |-> r.err]
           /\ best' = r.best
     IN  Result(optimize(data, isGif, best, opt))
  /\ pc' = IF out'.err = "none" THEN "write" ELSE "failed"
  /\ UNCHANGED <<data, isGif, opt, smartGreedy, scanI, file, dec, wpos, input, loaded, optimizedFrames, exitCode, blk>>

\* gif.writeOptimized / lzw.writeOptimized, followed by the file's trailer
WriteOptimized ==
  /\ pc = "write"
  /\ file' = IF isGif THEN WriteFrame(opt.minCodeSize, out.bits) \o <<Trailer>>
             ELSE CompressWrite(ZSettings, out.bits)
  /\ wpos' = Len(out.bits)
  /\ pc' = "decode"
  /\ UNCHANGED <<data, isGif, opt, smartGreedy, best, scanI, out, dec, input, loaded, optimizedFrames, exitCode, blk>>

\* reading the written file back: GifImage's / Compress's call of LzwDecoder
Decode ==
  /\ pc = "decode"
  /\ dec' = LET rd == [NewReader EXCEPT !.pos = IF isGif THEN 8 ELSE 24]
                Result(r) == [bytes |-> r.bytes, err |-> r.err, skips |-> r.skips, pos |-> r.rd.pos,
                              widths |-> r.widths]
            IN  Result(decompress(file, isGif, opt.minCodeSize,
                                  IF isGif THEN GifMaxCodeLength ELSE ZSettings % 32, rd))
  /\ pc' = "done"
  /\ UNCHANGED <<data, isGif, opt, smartGreedy, best, scanI, out, file, wpos, input, loaded, optimizedFrames, exitCode, blk>>

Next == Score \/ Optimize \/ WriteOptimized \/ Decode

Spec == Init /\ [][Next]_vars

(***************************************************************************)
(* .Z streams with restarts.  A .Z block may only end with a clear code    *)
(* once the codes are RestartCodeSize bits wide; main() sets minCodeSize   *)
(* to 8, where that takes more than 32000 codes.  With the literals        *)
(* RestartCodeSize - 1 bits wide the encoder and the decoder run the same  *)
(* code with 16-bit codes from the first code on, so that a token limit    *)
(* forces restarts in short streams.  The same streams are also encoded    *)
(* with main()'s minCodeSize, where all their codes are 9 bits wide and no *)
(* block may end with a clear code.                                        *)
(***************************************************************************)
MaxZLen == 6

WideMinCodeSize == RestartCodeSize - 1

ZTokenLimits == {1, 2, 3}

ZInputs ==
  { [data |-> d, isGif |-> FALSE, smart |-> FALSE,
     opt |-> Settings(mcs, a, FALSE, "greedy", mt, 0)] :
      d \in StreamsUpTo(MaxZLen), a \in 1..MaxAlign, mt \in ZTokenLimits,
      mcs \in {ZMinCodeSize, WideMinCodeSize} }

\* a longer stream cut into blocks of 5 to 9 codes, the clear code included
ZSeedInputs ==
  { [data |-> <<0, 1, 2, 3, 3, 2, 1, 0, 0, 2, 1, 3, 1, 1, 0, 3, 2, 2, 0>>, isGif |-> FALSE,
     smart |-> FALSE, opt |-> Settings(WideMinCodeSize, 1, FALSE, "greedy", mt, 0)] :
      mt \in 4..8 }

InitZ == InitPipeline(ZInputs \cup ZSeedInputs)

SpecZ == InitZ /\ [][Next]_vars

(***************************************************************************)
(* GifImage::writeOptimized on bit vectors of one, two and three           *)
(* sub-blocks.                                                             *)
(***************************************************************************)
MaxSlack == 9

FrameLengths ==
  (0..(2 * MaxSlack)) \cup ((MaxBitsPerBlock - MaxSlack)..(MaxBitsPerBlock + MaxSlack))
    \cup ((2 * MaxBitsPerBlock - MaxSlack)..(2 * MaxBitsPerBlock + MaxSlack))

Pattern(n, p) == [k \in 1..n |-> IF (k * k + p * k) % (p + 2) = 0 THEN 1 ELSE 0]

FrameBits == {Pattern(n, p) : n \in FrameLengths, p \in 1..3}

InitFrame ==
  /\ pc = "write"
  /\ data = <<>>
  /\ isGif = TRUE
  /\ opt \in {Settings(mcs, 1, TRUE, "greedy", GifMaxToken, 0) : mcs \in {2, 3}}
  /\ smartGreedy = FALSE
  /\ best = NoBest
  /\ scanI = -1
  /\ \E b \in FrameBits : out = [NoOut EXCEPT !.bits = b]
  /\ file = <<>>
  /\ dec = NoDec
  /\ wpos = 0
  /\ NothingLoaded
  /\ blk = NoBlock

SpecFrame == InitFrame /\ [][WriteOptimized]_vars

(***************************************************************************)
(* main() on a file: load, recompress every frame, write.  The command     *)
(* line is "flexiGIF INPUTFILE OUTPUTFILE", with -Z for a .Z file.         *)
(***************************************************************************)
LzwMaxToken == 100000

\* the codes at a fixed width as bits
RECURSIVE AddAll(_, _, _)
AddAll(stream, codes, numBits) ==
  IF codes = <<>> THEN stream ELSE AddAll(add(stream, Head(codes), numBits), Tail(codes), numBits)

\* the bits as bytes
PackBytes(bits) == [k \in 1..((Len(bits) + 7) \div 8) |-> PackByte(bits, 8 * (k - 1))]

\* GIF files: signature and screen descriptor with or without a global colour map
Headers ==
  { <<71, 73, 70, 56, 57, 97, 2, 0, 1, 0, 128, 0, 0, 0, 0, 0, 255, 255, 255>>,
    <<71, 73, 70, 56, 55, 97, 2, 0, 1, 0, 0, 0, 0>>,
    <<71, 73, 88, 56, 57, 97, 2, 0, 1, 0, 0, 0, 0>>,
    <<71, 73, 70, 56, 56, 97, 2, 0, 1, 0, 0, 0, 0>> }

\* a comment extension
Comment == <<ExtensionMarker, 254, 2, 104, 105, 0>>

\* an image descriptor, with or without a local colour map
Descriptor(localMap) ==
  <<DescriptorMarker, 0, 0, 0, 0, 2, 0, 1, 0>>
    \o (IF localMap THEN <<128, 0, 0, 0, 255, 255, 255>> ELSE <<0>>)

\* min code size 2 and one sub-block: clear, the pixels, end-of-stream in 3-bit codes
Payload(pixels) == <<2>> \o WriteBlocks(AddAll(<<>>, <<4>> \o pixels \o <<5>>, 3), 0) \o <<0>>

PixelRows == {<<0, 1>>, <<1, 1>>, <<1>>}

GoodFrames ==
  { (IF ext THEN Comment ELSE <<>>) \o Descriptor(localMap) \o Payload(p) :
      ext \in BOOLEAN, localMap \in BOOLEAN, p \in PixelRows }

PlainFrames == {Descriptor(FALSE) \o Payload(p) : p \in PixelRows}

\* LZW data with a code that is not in the table, with a code after a clear that is no
\* literal, and without the zero length byte behind the last sub-block
BadFrames ==
  { Descriptor(FALSE) \o b : b \in {<<2, 2, 60, 0, 0>>, <<2, 2, 12, 13, 0>>, <<2, 2, 68, 10, 1, 0, 0>>} }

Tails == {<<Trailer>>, Comment \o <<Trailer>>, <<Trailer, 0>>, <<>>}

GifFiles ==
  {h \o f \o t : h \in Headers, f \in GoodFrames \cup BadFrames, t \in Tails}
    \cup {h \o f1 \o f2 \o t : h \in {x \in Headers : parseSignature(x) = "none"},
                               f1 \in PlainFrames, f2 \in GoodFrames \cup BadFrames, t \in Tails}

\* a .Z header byte in block mode whose max_code_size field is 8
SmallZSettings == 136

\* .Z files: magic bytes, settings, 9-bit codes
ZFiles ==
  { <<m1, m2, settings>> \o PackBytes(AddAll(<<>>, codes, 9)) :
      m1 \in {MagicByte1, 0}, m2 \in {MagicByte2, 0}, settings \in {ZSettings, SmallZSettings, 16, 176},
      codes \in {<<0, 1>>, <<1, 1, 1>>, <<1, 258>>, <<1, 257, 0>>, <<1, 400>>, <<300, 1>>, <<1, 256, 0>>} }
    \cup {<<MagicByte1>>, <<MagicByte1, MagicByte2>>}

InitFile ==
  /\ pc = "load"
  /\ \E g \in BOOLEAN :
       /\ isGif = g
       /\ input \in (IF g THEN GifFiles ELSE ZFiles)
       /\ opt = Settings(2, 1, TRUE, "greedy", IF g THEN GifMaxToken ELSE LzwMaxToken, 0)
  /\ data = <<>>
  /\ smartGreedy = FALSE
  /\ best = NoBest
  /\ scanI = -1
  /\ out = NoOut
  /\ file = <<>>
  /\ dec = NoDec
  /\ wpos = 0
  /\ loaded = NoImage
  /\ optimizedFrames = <<>>
  /\ exitCode = "running"
  /\ blk = NoBlock

\* the scoring loop of main(), from offset i down to 0
RECURSIVE ScoreAll(_, _, _, _, _, _)
ScoreAll(d, g, b, i, o, smart) ==
  IF i < 0 THEN b
  ELSE CHOOSE r \in {ScoreAll(d, g, b1, i - 1, o, smart) : b1 \in {ScoreAt(d, g, b, i, o, smart)}} : TRUE

\* "GifImage gif(input)" and "error during decoding ?"
LoadGif ==
  /\ pc = "load" /\ isGif
  /\ loaded' = GifImageOf(input)
  /\ exitCode' = IF loaded'.err = "assert" THEN "abort"
                 ELSE IF loaded'.frames = <<>> THEN "NoFrameFound" ELSE "running"
  /\ pc' = IF exitCode' = "running" THEN "recompress" ELSE "exit"
  /\ UNCHANGED <<data, isGif, opt, smartGreedy, best, scanI, out, file, dec, wpos, input,
                 optimizedFrames, blk>>

\* "optimize all frames": one iteration, an exception of optimize() ends main()
RecompressFrame ==
  /\ pc = "recompress" /\ isGif
  /\ Len(optimizedFrames) < Len(loaded.frames)
  /\ LET current == loaded.frames[Len(optimizedFrames) + 1]
         o == [opt EXCEPT !.minCodeSize = current.codeSize]
         Result(r) ==
           /\ opt' = o
           /\ data' = current.pixels
           /\ best' = r.best
           /\ out' = [bits |-> r.bits, codes |-> r.codes, segs |-> r.segs, err |-> r.err]
           /\ IF r.err = "none"
              THEN optimizedFrames' = Append(optimizedFrames, r.bits) /\ UNCHANGED <<pc, exitCode>>
              ELSE pc' = "exit" /\ exitCode' = "GenericException" /\ UNCHANGED optimizedFrames
     IN  Result(optimize(current.pixels, isGif,
                         ScoreAll(current.pixels, isGif, NoBest, Len(current.pixels) - 1, o, smartGreedy),
                         o))
  /\ UNCHANGED <<isGif, smartGreedy, scanI, file, dec, wpos, input, loaded, blk>>

\* the frames as GifImage::writeOptimized writes them
RECURSIVE WriteFrames(_, _, _)
WriteFrames(frames, bits, k) ==
  IF k > Len(bits) THEN <<>>
  ELSE frames[k].rawHeader \o WriteFrame(frames[k].codeSize, bits[k]) \o WriteFrames(frames, bits, k + 1)

\* gif.writeOptimized(output, optimizedFrames, optimize.minCodeSize)
WriteGif ==
  /\ pc = "recompress" /\ isGif
  /\ Len(optimizedFrames) = Len(loaded.frames)
  /\ file' = loaded.rawHeader \o WriteFrames(loaded.frames, optimizedFrames, 1) \o loaded.rawTrailer
  /\ pc' = "exit"
  /\ exitCode' = "NoError"
  /\ UNCHANGED <<data, isGif, opt, smartGreedy, best, scanI, out, dec, wpos, input, loaded,
                 optimizedFrames, blk>>

\* "Compress lzw(input, compressZ)" and "adjust optimizer"
LoadZ ==
  /\ pc = "load" /\ ~isGif
  /\ loaded' = CompressOf(input)
  /\ opt' = [opt EXCEPT !.startWithClearCode = FALSE, !.minCodeSize = ZMinCodeSize]
  /\ data' = loaded'.data
  /\ exitCode' = IF loaded'.err = "assert" THEN "abort" ELSE "running"
  /\ pc' = IF exitCode' = "running" THEN "recompress" ELSE "exit"
  /\ UNCHANGED <<isGif, smartGreedy, best, scanI, out, file, dec, wpos, input, optimizedFrames, blk>>

\* the scoring loop, encoded.optimize(optimize) and lzw.writeOptimized(output, optimized)
RecompressZ ==
  /\ pc = "recompress" /\ ~isGif
  /\ LET Result(r) ==
           /\ best' = r.best
           /\ out' = [bits |-> r.bits, codes |-> r.codes, segs |-> r.segs, err |-> r.err]
           /\ IF r.err = "none"
              THEN /\ file' = CompressWrite(loaded.settings, r.bits)
                   /\ exitCode' = "NoError"
              ELSE /\ exitCode' = "GenericException"
                   /\ UNCHANGED file
     IN  Result(optimize(data, isGif,
                         ScoreAll(data, isGif, NoBest, Len(data) - 1, opt, smartGreedy), opt))
  /\ pc' = "exit"
  /\ UNCHANGED <<data, isGif, opt, smartGreedy, scanI, dec, wpos, input, loaded, optimizedFrames, blk>>

NextFile == LoadGif \/ RecompressFrame \/ WriteGif \/ LoadZ \/ RecompressZ

SpecFile == InitFile /\ [][NextFile]_vars

(***************************************************************************)
(* One call of LzwEncoder::optimizePartial, one iteration of its loop per  *)
(* step.  blk holds the arguments, m_best as it was when the call was      *)
(* made (best0), the loop's state after the last iteration (st) and before *)
(* it (prev), and what the call returned (result).                         *)
(***************************************************************************)
\* the length of the long streams
MaxBlockLen == 9

\* maxLength of a call: 0 for "to the end of the data"
BlockLengths == {0, 2}

\* non-greedy command lines: -n, -m and -r
NonGreedySettings ==
  { s \in { [Settings(2, 1, TRUE, "nongreedy", GifMaxToken, 0)
               EXCEPT !.minNonGreedyMatch = n, !.minImprovement = m, !.splitRuns = r] :
             n \in {2, 3}, m \in {1, 2}, r \in BOOLEAN } :
      s.splitRuns => (s.minNonGreedyMatch = 2 /\ s.minImprovement = 1) }

\* the shortest streams over {0, 1} in which the lookahead shortens a match (a match of
\* equal bytes), and in which two shorter lengths give the same, longest pair
BlockSeeds ==
  { <<0, 0, 0, 1, 0, 0, 0, 1, 0, 0, 0>>,
    <<0, 0, 0, 0, 0, 1, 0, 0, 0, 1, 0, 0, 0, 0, 0, 1, 1, 1, 0>> }

\* short streams with the command lines that matter to one block, long streams with the
\* non-greedy command lines, and the empty stream of an image without pixels
BlockInputs ==
  { x \in ShortInputs(StreamsUpTo(MaxLen), BOOLEAN, {2, ZMinCodeSize}) :
      /\ x.opt.maxTokens \in {0, 2} /\ x.opt.maxDictionary = 0
      /\ x.isGif => x.opt.startWithClearCode }
    \cup { [data |-> d, isGif |-> TRUE, smart |-> FALSE, opt |-> o] :
             d \in [1..MaxBlockLen -> {0, 1}] \cup BlockSeeds,
             o \in NonGreedySettings }
    \cup { [data |-> <<>>, isGif |-> TRUE, smart |-> mode = "prettygood",
            opt |-> Settings(2, a, clr, mode, 0, 0)] :
             a \in 1..MaxAlign, clr \in BOOLEAN, mode \in Modes }

InitBlock == InitPipeline(BlockInputs)

\* the scoring pass of main() runs before the call on the short streams only
ScoreShort == Len(data) <= MaxLen /\ Score

\* where a block may start: anywhere in a short stream, at the first byte of a long one
BlockStarts(d) == 0..(IF Len(d) > MaxLen THEN 0 ELSE Len(d) - 1)

\* entry of optimizePartial: "allocate memory", "length of current block", the check of
\* the alignment, the early return of the second pass of --prettygood, and the
\* initialisation of dictionary and counters
CallPartial ==
  /\ pc = "score"
  /\ \E from \in BlockStarts(data), maxLength \in BlockLengths, emit \in BOOLEAN, isFinal \in BOOLEAN :
       /\ ~emit => (maxLength = 0 /\ isFinal)
       /\ LET o      == [opt EXCEPT !.readOnlyBest = emit]
              b      == AllocBest(best, Len(data), o.alignment)
              length == IF Len(data) - from > maxLength /\ maxLength # 0 THEN maxLength ELSE Len(data) - from
              fromAligned == from \div o.alignment
              nothing == [bits |-> <<>>, codes |-> <<>>, pad |-> 0, best |-> b, err |-> "none"]
              call == [status |-> "loop", from |-> from, maxLength |-> maxLength, length |-> length,
                       emit |-> emit, isFinal |-> isFinal, o |-> o, best0 |-> best,
                       prev |-> PartialStart(isGif, o, from, b), st |-> PartialStart(isGif, o, from, b),
                       result |-> nothing]
          IN  /\ best' = b
              /\ IF NonAligned(from, o)
                 THEN /\ blk' = [call EXCEPT !.status = "returned",
                                             !.result.err = "non-aligned block start is forbidden"]
                      /\ pc' = "returned"
                 ELSE IF SkipSecondPass(o, emit, b[fromAligned])
                 THEN blk' = [call EXCEPT !.status = "returned"] /\ pc' = "returned"
                 ELSE blk' = call /\ pc' = "loop"
  /\ UNCHANGED <<data, isGif, opt, smartGreedy, scanI, out, file, dec, wpos, input, loaded,
                 optimizedFrames, exitCode>>

\* one iteration of "for (i = from; i <= lastPos; i++)"
StepPartial ==
  /\ pc = "loop"
  /\ ~(blk.st.stop \/ blk.st.i > blk.from + blk.length - 1)
  /\ blk' = [blk EXCEPT !.prev = blk.st,
                        !.st = PartialStep(data, isGif, blk.o, blk.from, blk.length, blk.emit, blk.st)]
  /\ best' = blk'.st.best
  /\ UNCHANGED <<pc, data, isGif, opt, smartGreedy, scanI, out, file, dec, wpos, input, loaded,
                 optimizedFrames, exitCode>>

\* the loop has ended: "end of block" and the return
ReturnPartial ==
  /\ pc = "loop"
  /\ blk.st.stop \/ blk.st.i > blk.from + blk.length - 1
  /\ LET Closed(c) == [bits |-> c.bits, codes |-> c.codes, pad |-> c.pad, best |-> blk.st.best, err |-> c.err]
     IN  blk' = [blk EXCEPT !.status = "returned",
                            !.result = IF ~blk.emit THEN [@ EXCEPT !.best = blk.st.best]
                                       ELSE Closed(CloseBlock(isGif, blk.o, blk.isFinal, blk.st,
                                                              blk.from + blk.length))]
  /\ pc' = "returned"
  /\ UNCHANGED <<data, isGif, opt, smartGreedy, best, scanI, out, file, dec, wpos, input, loaded,
                 optimizedFrames, exitCode>>

\* main() on a stream without bytes: the scoring loop has nothing to do, optimize() follows
OptimizeEmpty == Len(data) = 0 /\ Optimize

NextBlock == ScoreShort \/ CallPartial \/ StepPartial \/ ReturnPartial \/ OptimizeEmpty

SpecBlock == InitBlock /\ [][NextBlock]_vars

\* the steps of a call return what LzwEncoder::optimizePartial returns
BlockAgrees ==
  pc = "returned" =>
    blk.result = optimizePartial(data, isGif, blk.best0, blk.from, blk.maxLength, blk.emit,
                                 blk.isFinal, blk.o)

(***************************************************************************)
(* The bit readers.  BinaryInputBuffer keeps the bits it has fetched in    *)
(* m_bitBuffer; a buffer is the record [bitBuffer, bitBufferSize,          *)
(* bitsLeft, read, val, err] over the bytes it reads, val being the value  *)
(* the last peekBits returned.  A payload of a few bytes is read twice, in *)
(* the same code widths: unframed through the buffer, and through          *)
(* LzwDecoder::getLzwBits from the same bytes split into GIF sub-blocks.   *)
(***************************************************************************)
MaxPayload == 4

\* "assert(numBits <= 16)"
MaxPeekBits == 16

peekBitsBufferedMutant(bytes, b, numBits) ==
  IF b.err # "none" THEN b
  ELSE IF numBits > MaxPeekBits \/ numBits > b.bitsLeft THEN [b EXCEPT !.err = "assert"]
  ELSE LET Fill[k \in 0..2] ==
             IF k = 0 THEN b
             ELSE IF Fill[k - 1].bitBufferSize >= numBits THEN Fill[k - 1]
             ELSE [Fill[k - 1] EXCEPT
                     !.bitBuffer = (256 * @ + bytes[Fill[k - 1].read + 1]) % 2^24,
                     !.bitBufferSize = @ + 8,
                     !.read = @ + 1]
       IN  [Fill[2] EXCEPT !.val = Fill[2].bitBuffer % 2^numBits]

\* BinaryInputBuffer::peekBits: "move 8 bits from stream to buffer" until the buffer
\* holds numBits bits, then "return desired bits".  A byte is fetched while the buffer
\* holds fewer than numBits <= 16 bits, so the unsigned int m_bitBuffer holds 23 bits at
\* most and Or is taken over 24
peekBitsBuffered(bytes, b, numBits) ==
  IF b.err # "none" THEN b
  ELSE IF numBits > MaxPeekBits \/ numBits > b.bitsLeft THEN [b EXCEPT !.err = "assert"]
  ELSE LET \* x | (byte << size): the sum where x has no bit at size or above
           Or(x, byte, size) ==
             LET S[k \in 0..24] ==
                   IF k = 0 THEN 0
                   ELSE S[k - 1] + 2^(k - 1) * (IF \/ (x \div 2^(k - 1)) % 2 = 1
                                                   \/ ((byte * 2^size) \div 2^(k - 1)) % 2 = 1
                                                THEN 1 ELSE 0)
             IN  IF x < 2^size THEN x + byte * 2^size ELSE S[24]
           Fill[k \in 0..2] ==
             IF k = 0 THEN b
             ELSE IF Fill[k - 1].bitBufferSize >= numBits THEN Fill[k - 1]
             ELSE [Fill[k - 1] EXCEPT
                     !.bitBuffer = Or(@, bytes[Fill[k - 1].read + 1], Fill[k - 1].bitBufferSize),
                     !.bitBufferSize = @ + 8,
                     !.read = @ + 1]
       IN  [Fill[2] EXCEPT !.val = Fill[2].bitBuffer % 2^numBits]

\* BinaryInputBuffer::removeBits
removeBits(bytes, b, numBits) ==
  LET Adjust(p) ==
        IF p.err # "none" THEN p
        ELSE [p EXCEPT !.bitBuffer = @ \div 2^numBits, !.bitBufferSize = @ - numBits,
                       !.bitsLeft = @ - numBits, !.val = b.val]
  IN  Adjust(IF b.bitBufferSize < numBits THEN peekBitsBuffered(bytes, b, numBits) ELSE b)

\* BinaryInputBuffer::getBits over the buffer
getBitsBuffered(bytes, b, numBits) == removeBits(bytes, peekBitsBuffered(bytes, b, numBits), numBits)

\* the payload as GIF data sub-blocks that end behind the bytes cuts counts, each
\* preceded by its length byte, and the zero length byte that ends the data
FrameWith(payload, cuts) ==
  LET Size(i) == (CHOOSE c \in cuts \cup {Len(payload)} :
                    c >= i /\ \A d \in cuts \cup {Len(payload)} : d >= i => c <= d) - (i - 1)
      F[i \in 0..Len(payload)] ==
        IF i = 0 THEN <<>>
        ELSE F[i - 1] \o (IF i - 1 \in cuts \cup {0} THEN <<Size(i)>> ELSE <<>>) \o <<payload[i]>>
  IN  F[Len(payload)] \o FrameEnd

InitReader ==
  /\ pc = "read"
  /\ \E n \in 1..MaxPayload :
       \E payload \in [1..n -> {77, 165}] :
         \E cuts \in SUBSET (1..(n - 1)) :
           /\ data = payload
           /\ input = FrameWith(payload, cuts)
  /\ isGif = TRUE
  /\ opt = Settings(ZMinCodeSize, 1, TRUE, "greedy", GifMaxToken, 0)
  /\ smartGreedy = FALSE
  /\ best = NoBest
  /\ scanI = -1
  /\ out = NoOut
  /\ file = <<>>
  /\ dec = [lzw |-> NewReader,
            buf |-> [bitBuffer |-> 0, bitBufferSize |-> 0, bitsLeft |-> 8 * Len(data),
                     read |-> 0, val |-> 0, err |-> "none"]]
  /\ wpos = 0
  /\ loaded = NoImage /\ optimizedFrames = <<>> /\ exitCode = "running"
  /\ blk = NoBlock

\* the decoder reads the next code, numBits wide: getLzwBits on the sub-blocks, getBits
\* on the unframed payload
ReadCode ==
  /\ pc = "read"
  /\ dec.lzw.err = "none" /\ dec.buf.err = "none"
  /\ \E numBits \in (opt.minCodeSize + 1)..GifMaxCodeLength :
       /\ numBits <= dec.buf.bitsLeft
       /\ dec' = [lzw |-> getLzwBits(input, TRUE, dec.lzw, numBits),
                  buf |-> getBitsBuffered(data, dec.buf, numBits)]
  /\ UNCHANGED <<pc, data, isGif, opt, smartGreedy, best, scanI, out, file, wpos, input, loaded, optimizedFrames, exitCode, blk>>

\* a look at the next bits of the unframed payload
PeekCode ==
  /\ pc = "read"
  /\ dec.buf.err = "none"
  /\ \E numBits \in 1..MaxPeekBits :
       /\ numBits <= dec.buf.bitsLeft
       /\ dec' = [dec EXCEPT !.buf = [peekBitsBuffered(data, dec.buf, numBits) EXCEPT !.val = dec.buf.val]]
  /\ dec'.buf.bitBufferSize # dec.buf.bitBufferSize
  /\ UNCHANGED <<pc, data, isGif, opt, smartGreedy, best, scanI, out, file, wpos, input, loaded, optimizedFrames, exitCode, blk>>

NextReader == ReadCode \/ PeekCode

SpecReader == InitReader /\ [][NextReader]_vars

(***************************************************************************)
(* GifImage::setInterlacing.  input is a GIF file with one frame up to its *)
(* image data, data the rows of the picture from top to bottom, loaded the *)
(* GifImage object: m_rawHeader, m_width, m_height, m_isAnimated and the   *)
(* frame with its pixels as the file stores them.  A read outside a vector *)
(* yields any value, a write outside it is not seen in the object; the     *)
(* field call records what the last call did.                              *)
(***************************************************************************)
MaxHeight == 9
MaxWidth == 2
MaxCalls == 2

GraphicControl == 249
InterlaceMask == 64

\* "line order": the rows of a picture of h rows in the order an interlaced GIF stores them
PassOrder(h) ==
  LET Pass(first, step) == [k \in 1..((h + step - 1 - first) \div step) |-> first + step * (k - 1)]
  IN  Pass(0, 8) \o Pass(4, 8) \o Pass(2, 4) \o Pass(1, 2)

NoCall == [makeInterlaced |-> FALSE, thrown |-> "none", reordered |-> FALSE, before |-> <<>>,
           outside |-> {}]

\* setInterlacing(makeInterlaced); anyFlag is the bit read at m_rawHeader[posInterlaced]
\* and anyByte the pixel read from a row, where they lie outside the vector
setInterlacing(img, makeInterlaced, anyFlag, anyByte) ==
  LET posInterlaced == img.frames[1].posInterlaced
      current   == img.frames[1].pixels
      m_width   == img.width
      m_height  == img.height
      inHeader  == posInterlaced < Len(img.rawHeader)
      isInterlaced == IF inHeader
                      THEN (img.rawHeader[posInterlaced + 1] \div InterlaceMask) % 2 = 1
                      ELSE anyFlag
      \* "set flag" and "unset flag"
      flagged   == IF inHeader
                   THEN [img.rawHeader EXCEPT ![posInterlaced + 1] =
                           @ - ((@ \div InterlaceMask) % 2) * InterlaceMask
                             + (IF makeInterlaced THEN InterlaceMask ELSE 0)]
                   ELSE img.rawHeader
      headerUse == IF inHeader THEN {} ELSE {"rawHeader"}
      pass1     == (m_height + 8 - 1) \div 8
      pass2     == pass1 + (m_height + 8 - 5) \div 8
      pass3     == pass2 + (m_height + 4 - 1) \div 4
      \* the loop over y: the four offsets and the rows taken so far
      Loop[y \in 0..m_height] ==
        IF y = 0 THEN [pass |-> <<0, pass1, pass2, pass3>>, rows |-> <<>>]
        ELSE LET c == IF (y - 1) % 8 = 0 THEN 1
                      ELSE IF (y - 1) % 8 = 4 THEN 2
                      ELSE IF (y - 1) % 4 = 2 THEN 3 ELSE 4
             IN  [pass |-> [Loop[y - 1].pass EXCEPT ![c] = @ + 1],
                  rows |-> Append(Loop[y - 1].rows, Loop[y - 1].pass[c])]
      \* the rows of source copied one behind the other
      Copied(source, rows) ==
        [i \in 1..(Len(rows) * m_width) |->
           IF rows[(i - 1) \div m_width + 1] * m_width + ((i - 1) % m_width) + 1 <= Len(source)
           THEN source[rows[(i - 1) \div m_width + 1] * m_width + ((i - 1) % m_width) + 1]
           ELSE anyByte]
      Outside(source, rows) ==
        IF \E k \in DOMAIN rows : (rows[k] + 1) * m_width > Len(source) THEN {"pixels"} ELSE {}
      Thrown(message) == [img EXCEPT !.call = [NoCall EXCEPT !.makeInterlaced = makeInterlaced,
                                                             !.thrown = message]]
      Reordered(rows) ==
        [img EXCEPT !.rawHeader = flagged,
                    !.frames = << [img.frames[1] EXCEPT !.pixels = Copied(current, rows)] >>,
                    !.call = [NoCall EXCEPT !.makeInterlaced = makeInterlaced, !.reordered = TRUE,
                                            !.before = current,
                                            !.outside = headerUse \cup Outside(current, rows)]]
  IN  IF Len(img.frames) # 1 THEN Thrown("code doesn't work yet for animated GIFs")
      ELSE IF posInterlaced = 0 THEN Thrown("interlaced bit not found")
      ELSE IF img.isAnimated THEN Thrown("interlacing in animation not supported yet")
      ELSE IF m_height <= 1 THEN [img EXCEPT !.call = [NoCall EXCEPT !.makeInterlaced = makeInterlaced]]
      ELSE IF isInterlaced = makeInterlaced
      THEN [img EXCEPT !.call = [NoCall EXCEPT !.makeInterlaced = makeInterlaced, !.outside = headerUse]]
      ELSE IF makeInterlaced THEN Reordered(PassOrder(m_height))
      ELSE Reordered(Loop[m_height].rows)

\* input is a GIF file up to the image data: a screen descriptor of w x h with or without
\* a global colour map, no extension or a comment or a graphic control extension, and the
\* image descriptor.  loaded is the GifImage object of the file: the header is parsed as
\* the constructor does, the frame holds the rows in the order the flag of the file says
InitInterlace ==
  /\ pc = "image"
  /\ \E w \in 1..MaxWidth, h \in 1..MaxHeight :
       /\ data = [i \in 1..(w * h) |-> i]
       /\ input \in
            { <<71, 73, 70, 56, 57, 97, w, 0, h, 0>> \o map \o ext
                \o <<DescriptorMarker, 0, 0, 0, 0, w, 0, h, 0, flags>> :
                map \in {<<0, 0, 0>>, <<128, 0, 0, 0, 0, 0, 255, 255, 255>>},
                ext \in {<<>>, Comment, <<ExtensionMarker, GraphicControl, 4, 0, 0, 0, 0, 0>>},
                flags \in {0, InterlaceMask} }
  /\ LET Object(g, e, d) ==
           [rawHeader |-> SubSeq(input, 1, g.at),
            frames |-> << [rawHeader |-> SubSeq(input, g.at + 1, d.at), codeSize |-> 8,
                           posInterlaced |-> e.at + 9,
                           pixels |-> IF (input[e.at + 10] \div InterlaceMask) % 2 = 1
                                      THEN [i \in 1..Len(data) |->
                                              data[PassOrder(input[9])[(i - 1) \div input[7] + 1] * input[7]
                                                   + ((i - 1) % input[7]) + 1]]
                                      ELSE data] >>,
            rawTrailer |-> <<>>, err |-> "none",
            width |-> input[7] + 256 * input[8], height |-> input[9] + 256 * input[10],
            isAnimated |-> (g.at # e.at /\ input[g.at + 2] = GraphicControl),
            call |-> NoCall, calls |-> 0]
         Described(g, e) == Object(g, e, parseLocalDescriptor(input, e.at))
         Extended(g) == Described(g, parseExtensions(input, g.at))
     IN  loaded = Extended(parseGlobalDescriptor(input, 6))
  /\ isGif = TRUE
  /\ opt = Settings(ZMinCodeSize, 1, TRUE, "greedy", GifMaxToken, 0)
  /\ smartGreedy = FALSE
  /\ best = NoBest
  /\ scanI = -1
  /\ out = NoOut
  /\ file = <<>>
  /\ dec = NoDec
  /\ wpos = 0
  /\ optimizedFrames = <<>> /\ exitCode = "running"
  /\ blk = NoBlock

\* gif.setInterlacing(true)
MakeInterlaced ==
  /\ pc = "image" /\ loaded.calls < MaxCalls /\ loaded.call.thrown = "none"
  /\ \E anyFlag \in BOOLEAN, anyByte \in {0, 255} :
       loaded' = [setInterlacing(loaded, TRUE, anyFlag, anyByte) EXCEPT !.calls = @ + 1]
  /\ UNCHANGED <<pc, data, isGif, opt, smartGreedy, best, scanI, out, file, dec, wpos, input, optimizedFrames, exitCode, blk>>

\* gif.setInterlacing(false), "de-interlace non-animated GIFs"
MakeDeinterlaced ==
  /\ pc = "image" /\ loaded.calls < MaxCalls /\ loaded.call.thrown = "none"
  /\ \E anyFlag \in BOOLEAN, anyByte \in {0, 255} :
       loaded' = [setInterlacing(loaded, FALSE, anyFlag, anyByte) EXCEPT !.calls = @ + 1]
  /\ UNCHANGED <<pc, data, isGif, opt, smartGreedy, best, scanI, out, file, dec, wpos, input, optimizedFrames, exitCode, blk>>

NextInterlace == MakeInterlaced \/ MakeDeinterlaced

SpecInterlace == InitInterlace /\ [][NextInterlace]_vars

(***************************************************************************)
(* Properties                                                              *)
(***************************************************************************)
Emitted == pc \in {"write", "decode", "done"}

Clear == 2^opt.minCodeSize

\* the restart positions optimize() walked to, the final one (the data's end) excluded
InteriorRestarts == {out.segs[k].to : k \in DOMAIN out.segs} \ {Len(data)}

\* C1: a GIF literal stream that was scored, optimized, framed and decoded comes back
\* unchanged and the decoder raises no error
C1_RoundTrip == (pc = "done" /\ isGif) => (dec.err = "none" /\ dec.bytes = data)

\* the interior restart positions that are multiples of the alignment
AlignedInterior == {r \in 1..(Len(data) - 1) : r % opt.alignment = 0}

\* a set of positions as the ascending restart list
RECURSIVE Ascending(_)
Ascending(S) ==
  IF S = {} THEN <<>>
  ELSE LET m == CHOOSE x \in S : \A y \in S : x <= y IN <<m>> \o Ascending(S \ {m})

\* the restart list 0 < r_1 < ... < r_k = N with the interior elements R
RestartList(R) == Append(Ascending(R), Len(data))

\* C3: in GIF greedy mode without dictionary and token limits, the bit vector of
\* optimize() is no longer than that of merge() for any other aligned restart set
C3_Optimal ==
  (pc = "write" /\ isGif /\ opt.greedy /\ opt.maxDictionary = 0 /\ opt.maxTokens = 0)
    => \A R \in SUBSET AlignedInterior :
         Len(out.bits) <= Len(merge(data, isGif, best, RestartList(R), opt).bits)

\* C4: every emitted code, data code or clear or end-of-stream, fits the width it is
\* written with, in both flavours
C4_WidthDiscipline ==
  Emitted => \A k \in DOMAIN out.codes : out.codes[k].code < 2^(out.codes[k].width)

\* a stream whose codes have outgrown the initial width
C4_Witness ==
  /\ Emitted
  /\ \E k \in DOMAIN out.codes :
       /\ out.codes[k].code > Clear + 1
       /\ out.codes[k].width > opt.minCodeSize + 1

\* C5: in a GIF bit vector every clear code, the leading one and each one that closes
\* a non-final segment, is immediately followed by a literal
C5_LiteralAfterClear ==
  (Emitted /\ isGif) =>
    \A k \in DOMAIN out.codes :
      out.codes[k].code = Clear => (k < Len(out.codes) /\ out.codes[k + 1].code < Clear)

\* a GIF stream with a leading clear and a restart, whose first bytes repeat
C5_Witness ==
  /\ Emitted /\ isGif /\ opt.startWithClearCode
  /\ InteriorRestarts # {}
  /\ \E k \in 2..Len(out.codes) : out.codes[k].code = Clear
  /\ Len(data) >= 2 /\ data[1] = data[2]

\* the number of clear codes emitted at input position p
ClearsAt(p) ==
  Cardinality({k \in DOMAIN out.codes : out.codes[k].code = Clear /\ out.codes[k].pos = p})

\* the dictionary size that ends a block: maxDictionary if set, else the format's
DictionaryCap == IF opt.maxDictionary > 0 THEN opt.maxDictionary ELSE MaxDictionaryOf(isGif)

\* C6 as stated: a clear code appears at a position if and only if the dictionary was
\* at its cap there or the walk over m_best chose a restart there
C6_ClearIffCapOrRestart ==
  (Emitted /\ isGif) =>
    \A p \in 0..Len(data) :
      (ClearsAt(p) > 0) <=>
        \/ p \in InteriorRestarts
        \/ \E k \in DOMAIN out.codes : out.codes[k].pos = p /\ out.codes[k].dictSize >= DictionaryCap

\* C6 amended: the clear codes of a GIF bit vector are the leading one, present exactly
\* when startWithClearCode is set, and the one closing each non-final segment: one at
\* every interior restart position, the last code of its segment, and no other
C6_ClearPlacement ==
  (Emitted /\ isGif) =>
    /\ \A p \in 0..Len(data) :
         ClearsAt(p) = (IF p \in InteriorRestarts THEN 1 ELSE 0)
                       + (IF p = 0 /\ opt.startWithClearCode THEN 1 ELSE 0)
    /\ opt.startWithClearCode => out.codes[1].code = Clear
    /\ \A k \in DOMAIN out.codes :
         (out.codes[k].code = Clear /\ out.codes[k].pos > 0) =>
           (k < Len(out.codes) /\ out.codes[k + 1].pos = out.codes[k].pos)

\* a leading clear and a restart in one stream
C6_Witness ==
  /\ Emitted /\ isGif /\ opt.startWithClearCode
  /\ InteriorRestarts # {}
  /\ \E p \in InteriorRestarts : ClearsAt(p) = 1
  /\ ClearsAt(0) = 1

\* the positions the walk of optimize() visits: 0, and the end of the block that m_best
\* records for a visited position
Visited[p \in 0..Len(data)] ==
  \/ p = 0
  \/ \E q \in 0..(p - 1) :
       /\ Visited[q]
       /\ best[q \div opt.alignment].length > 0
       /\ q + best[q \div opt.alignment].length = p

WalkHasGap == \E p \in 0..(Len(data) - 1) : Visited[p] /\ best[p \div opt.alignment].length = 0

WalkRestarts == Ascending({p \in 1..Len(data) : Visited[p]})

Optimized == pc \in {"write", "decode", "done", "failed"}

\* C10: optimize() fails with the gap error exactly when the walk from offset 0 reaches
\* a position before the end whose entry has length 0; otherwise its result is the
\* merge of the restart list the walk reconstructs
C10_GapOrMerge ==
  Optimized =>
    /\ (out.err = GapError) <=> WalkHasGap
    /\ ~WalkHasGap =>
         LET m == merge(data, isGif, best, WalkRestarts, opt)
         IN  out.bits = m.bits /\ out.err = m.err

\* a scored stream whose walk stops at an entry of length 0, and the error raised
C10_Witness ==
  /\ pc = "failed" /\ WalkHasGap /\ out.err = GapError
  /\ \E k \in DOMAIN best : best[k].length > 0

\* the bit offset in the .Z file at which segment k's bits end
RECURSIVE SegEnd(_)
SegEnd(k) == IF k = 0 THEN 24 ELSE SegEnd(k - 1) + out.segs[k].bits

RECURSIVE SubBlocks(_, _)
SubBlocks(bytes, at) ==
  IF at > Len(bytes) THEN [ok |-> FALSE, sizes |-> <<>>, bytes |-> <<>>, next |-> at]
  ELSE IF bytes[at] = 0 THEN [ok |-> TRUE, sizes |-> <<>>, bytes |-> <<>>, next |-> at + 1]
  ELSE IF at + bytes[at] > Len(bytes) THEN [ok |-> FALSE, sizes |-> <<>>, bytes |-> <<>>, next |-> at]
  ELSE LET r == SubBlocks(bytes, at + bytes[at] + 1)
       IN  [ok |-> r.ok, sizes |-> <<bytes[at]>> \o r.sizes,
            bytes |-> SubSeq(bytes, at + 1, at + bytes[at]) \o r.bytes, next |-> r.next]

\* C7: the frame the GIF writer emits is a sequence of sub-blocks, each a length byte
\* in 1..255 followed by that many bytes, holding the bit vector packed least
\* significant bit first, and ended by exactly one zero length byte
C7_SubBlockFraming ==
  (pc \in {"decode", "done"} /\ isGif) =>
    LET p == SubBlocks(file, 2)
    IN  /\ p.ok
        /\ \A k \in DOMAIN p.sizes : p.sizes[k] \in 1..255
        /\ p.next = Len(file) /\ file[p.next] # 0
        /\ Len(p.bytes) = (Len(out.bits) + 7) \div 8
        /\ \A k \in DOMAIN p.bytes : p.bytes[k] \in 0..255
        /\ \A k \in 1..(8 * Len(p.bytes)) :
             FileBit(p.bytes, k - 1) = (IF k <= Len(out.bits) THEN out.bits[k] ELSE 0)

\* a written frame of three sub-blocks, the first two full, the last ending in a
\* partly filled byte
C7_Witness ==
  /\ pc = "decode" /\ isGif
  /\ Len(out.bits) > 2 * MaxBitsPerBlock /\ Len(out.bits) % 8 # 0
  /\ Len(SubBlocks(file, 2).sizes) = 3
  /\ \E k \in DOMAIN out.bits : out.bits[k] = 1

\* a GIF file from byte at on, cut at the data sub-blocks of its images: the bytes
\* before the first image's data, between the data of two images, and behind the
\* last one up to the trailer that ends the file
RECURSIVE MaskFrames(_, _)
MaskFrames(bytes, at) ==
  LET e      == parseExtensions(bytes, at)
      d      == parseLocalDescriptor(bytes, e.at)
      blocks == SubBlocks(bytes, d.at + 2)
      rest   == MaskFrames(bytes, blocks.next - 1)
      no     == [ok |-> FALSE, parts |-> <<>>]
  IN  IF e.err # "none" THEN no
      ELSE IF bytes[e.at + 1] = Trailer
      THEN IF e.at + 1 = Len(bytes)
           THEN [ok |-> TRUE, parts |-> <<SubSeq(bytes, at + 1, e.at + 1)>>] ELSE no
      ELSE IF d.err # "none" \/ d.at + 1 > Len(bytes) \/ ~blocks.ok THEN no
      ELSE [ok |-> rest.ok, parts |-> <<SubSeq(bytes, at + 1, d.at + 1)>> \o rest.parts]

\* a whole GIF file cut at the data sub-blocks of its images
Masked(bytes) ==
  LET g    == parseGlobalDescriptor(bytes, 6)
      rest == MaskFrames(bytes, g.at)
  IN  IF parseSignature(bytes) # "none" \/ g.err # "none" \/ ~rest.ok
      THEN [ok |-> FALSE, parts |-> <<>>]
      ELSE [ok |-> TRUE, parts |-> <<SubSeq(bytes, 1, g.at) \o Head(rest.parts)>> \o Tail(rest.parts)]

\* C8: when a GIF file whose images all decode is recompressed, the output differs
\* from it only inside the data sub-blocks: header, extensions, descriptors, colour
\* tables, min code size bytes and the trailer are the input's, in the input's order
C8_OnlyLzwDataDiffers ==
  (/\ pc = "exit" /\ isGif /\ exitCode = "NoError"
   /\ Masked(input).ok
   /\ Len(loaded.frames) = Len(Masked(input).parts) - 1)
    => Masked(file) = Masked(input)

\* the failures of loading the claim lists
LoadFailures ==
  { "invalid file signature", "invalid GIF version, only 87a and 89a supported",
    "invalid token", "block starts with an undefined value/color",
    "LZW data is not properly terminated" }

\* C9: when loading the input fails, main() ends with an error code and writes no
\* output file
C9_LoadFailureSurfaced ==
  (pc = "exit" /\ loaded.err \in LoadFailures) => (exitCode # "NoError" /\ file = <<>>)

WrittenWidths == [k \in 1..Len(out.codes) |-> out.codes[k].width]

\* C14: the encoder and the decoder are in lock-step on the code width: for every code of
\* an emitted bit vector, closing clear and end-of-stream codes included, the number of
\* bits the encoder wrote equals the number of bits LzwDecoder asks for at that code.
C14_WidthLockStep == pc = "done" => dec.widths = WrittenWidths

\* C15: the cost table agrees with the emission: in greedy mode, for every block on the
\* path optimize() chose, m_best[start / alignment].bits is the number of bits the
\* emitting call produced for the block, and m_best[0].totalBits is the length of the
\* result without the optional leading clear code.
C15_CostIsEmission ==
  (pc = "write" /\ opt.greedy) =>
    /\ \A k \in DOMAIN out.segs :
         best[out.segs[k].from \div opt.alignment].bits = out.segs[k].bits
    /\ best[0].totalBits = Len(out.bits) - Len(LeadingClear(isGif, opt))

\* C19: in the two-pass scoring, whenever the greedy call at an aligned offset returns
\* early (avoidNonGreedyAgain is set, the entry the non-greedy call left has nongreedy = 0
\* and length > 0), the greedy call run in full would have left that entry as it is.
C19_SkippedPassRedundant ==
  (pc = "score" /\ scanI >= 0 /\ scanI % opt.alignment = 0 /\ smartGreedy /\ ~opt.greedy) =>
    LET aligned == scanI \div opt.alignment
        again   == [opt EXCEPT !.greedy = TRUE]
        InFull(b1) ==
          optimizePartial(data, isGif, b1, scanI, 0, FALSE, TRUE,
                          [again EXCEPT !.avoidNonGreedyAgain = FALSE]).best
        Second(b1) ==
          SkipSecondPass(again, FALSE, b1[aligned]) => InFull(b1)[aligned] = b1[aligned]
    IN  Second(optimizePartial(data, isGif, best, scanI, 0, FALSE, TRUE, opt).best)

\* C21: in a GIF bit vector every non-final segment merge() emitted ends with exactly
\* one clear code and the final segment with exactly one end-of-stream code, no other
\* code of a segment is a control code, and the closing code is written with the least
\* number of bits that can hold m_dictSize - 1 at that moment.
C21_ClosingCode ==
  (Emitted /\ isGif) =>
    LET End[k \in 0..Len(out.segs)] ==
          IF k = 0 THEN Len(LeadingCodes(isGif, opt)) ELSE End[k - 1] + out.segs[k].tokens
    IN  \A k \in DOMAIN out.segs :
          LET closing == out.codes[End[k]]
          IN  /\ End[k] > End[k - 1]
              /\ closing.code = (IF k = Len(out.segs) THEN Clear + 1 ELSE Clear)
              /\ \A j \in (End[k - 1] + 1)..(End[k] - 1) :
                    out.codes[j].code \notin {Clear, Clear + 1}
              /\ closing.dictSize - 1 < 2^closing.width
              /\ 2^(closing.width - 1) <= closing.dictSize - 1

\* a stream in two segments or more: a clear code closes a segment in which the
\* dictionary has grown, and a closing code is wider than the first code
C21_Witness ==
  /\ Emitted /\ isGif /\ Len(out.segs) >= 2
  /\ \E k \in 2..Len(out.codes) :
       out.codes[k].code = Clear /\ out.codes[k].dictSize > Clear + 2
  /\ \E k \in DOMAIN out.codes :
       /\ out.codes[k].code \in {Clear, Clear + 1}
       /\ out.codes[k].width > opt.minCodeSize + 1

\* C22 as stated: after the scoring pass, for every aligned offset i that has a
\* following aligned offset, m_best[i].totalBits >= m_best[next].totalBits - m_best[i].bits
C22_Monotone ==
  (pc = "score" /\ scanI < 0) =>
    \A k \in 0..(((Len(data) - 1) \div opt.alignment) - 1) :
      best[k].totalBits >= best[k + 1].totalBits - best[k].bits

\* C22 amended: after the scoring pass, for every aligned offset whose entry was reached
\* (totalBits > 0) and that has a following aligned offset, the entry's totalBits is at
\* least the totalBits of the following aligned offset minus the entry's own bits.
C22_MonotoneWhereReached ==
  (pc = "score" /\ scanI < 0) =>
    \A k \in 0..(((Len(data) - 1) \div opt.alignment) - 1) :
      best[k].totalBits > 0 => best[k].totalBits >= best[k + 1].totalBits - best[k].bits

\* a scored stream with a reached entry whose block runs past the following aligned
\* offset and whose totalBits is below that offset's
C22_Witness ==
  /\ pc = "score" /\ scanI < 0
  /\ \E k \in 0..(((Len(data) - 1) \div opt.alignment) - 1) :
       /\ best[k].totalBits > 0
       /\ best[k].length > opt.alignment
       /\ best[k + 1].totalBits > best[k].totalBits

\* C23: if m_best[0] is reached (totalBits > 0) after the scoring pass, the forward walk
\* of optimize() meets no entry of length 0 and ends: the restart list it builds is
\* strictly increasing, each element but the last is a multiple of the alignment, and
\* the last element is the length of the data.
C23_WalkComplete ==
  (pc = "score" /\ scanI < 0 /\ best[0].totalBits > 0) =>
    LET Complete(w) ==
          /\ w.ok
          /\ w.restarts # <<>>
          /\ \A k \in 1..(Len(w.restarts) - 1) :
               w.restarts[k] < w.restarts[k + 1] /\ w.restarts[k] % opt.alignment = 0
          /\ w.restarts[1] > 0
          /\ w.restarts[Len(w.restarts)] = Len(data)
    IN  Complete(FindRestarts(best, Len(data), opt.alignment, 0, <<>>))

\* a scored stream whose length is no multiple of the alignment, and a walk from the
\* reached entry 0 over two blocks or more
C23_Witness ==
  /\ pc = "score" /\ scanI < 0 /\ best[0].totalBits > 0
  /\ opt.alignment > 1 /\ Len(data) % opt.alignment # 0
  /\ Len(FindRestarts(best, Len(data), opt.alignment, 0, <<>>).restarts) >= 2

\* C24: merge() encodes every byte of every segment: for every strictly increasing
\* restart list within the data, also with a token or dictionary limit set, the codes
\* written for a segment denote as many bytes as the segment is long.  The bytes a code
\* denotes are counted as a decoder does: one for a literal, and for the j-th code above
\* the control codes one more than the (j + 1)-th code of the segment.
C24_MergeEncodesAll ==
  (pc = "score" /\ scanI = Len(data) - 1) =>
    \A R \in SUBSET (1..(Len(data) - 1)) :
      LET Whole(m) ==
            LET End[k \in 0..Len(m.segs)] ==
                  IF k = 0 THEN Len(LeadingCodes(isGif, opt)) ELSE End[k - 1] + m.segs[k].tokens
                Last(k) == IF isGif \/ k < Len(m.segs) THEN End[k] - 1 ELSE End[k]
                Bytes[j \in DOMAIN m.codes] ==
                  IF m.codes[j].code < Clear THEN 1
                  ELSE 1 + Bytes[CHOOSE f \in 1..j : \E k \in DOMAIN m.segs :
                                   /\ End[k - 1] < j /\ j <= End[k]
                                   /\ f = End[k - 1] + 1 + (m.codes[j].code - InitialDictSize(isGif, opt))]
                Sum[k \in DOMAIN m.segs, j \in 1..(Len(m.codes) + 1)] ==
                  IF j > Last(k) THEN 0 ELSE Bytes[j] + Sum[k, j + 1]
            IN  m.err = "none" =>
                  \A k \in DOMAIN m.segs :
                    Sum[k, End[k - 1] + 1] = m.segs[k].to - m.segs[k].from
      IN  Whole(merge(data, isGif, best, RestartList(R), opt))

\* C27: a file is decoded as a .Z stream only if its first two bytes are 0x1F
\* and 0x9D, bit 0x80 of the third byte is set and its bits 0x60 are zero; a
\* file failing one of these checks is rejected with an error and no data
C27_ZHeaderChecked ==
  (~isGif /\ pc # "load") =>
    LET wellFormed == /\ Len(input) >= 3
                      /\ input[1] = MagicByte1 /\ input[2] = MagicByte2
                      /\ (input[3] \div 128) % 2 = 1
                      /\ (input[3] \div 32) % 4 = 0
    IN  ~wellFormed => (loaded.err # "none" /\ loaded.data = <<>>)

\* C26: in .Z mode no code of the output is wider than the max_code_size in
\* the low 5 bits of the flags byte that writeOptimized copies into the output
C26_WidthWithinHeader ==
  (~isGif /\ pc = "exit" /\ exitCode = "NoError" /\ Len(file) >= 3) =>
    \A k \in DOMAIN out.codes : out.codes[k].width <= file[3] % 32

(***************************************************************************)
(* Properties of one call of optimizePartial                               *)
(***************************************************************************)
\* the call has returned from a start offset off the alignment grid
ReturnedNonAligned == pc = "returned" /\ blk.from % blk.o.alignment # 0

\* C11: a call of optimizePartial whose start offset is not a multiple of the alignment
\* ends with the fatal error "non-aligned block start is forbidden", returns no bits and
\* leaves every entry of m_best as it was when the call was made.
C11_NonAlignedFails ==
  ReturnedNonAligned =>
    /\ blk.result.err = "non-aligned block start is forbidden"
    /\ blk.result.bits = <<>>
    /\ \A k \in DOMAIN blk.best0 : best[k] = blk.best0[k]

\* a non-aligned emitting call made after the scoring pass has filled m_best
C11_Witness ==
  /\ ReturnedNonAligned
  /\ blk.emit
  /\ scanI < 0
  /\ \E k \in DOMAIN blk.best0 : blk.best0[k].length > 0
  /\ blk.result.err = "non-aligned block start is forbidden"

\* C12: encoding a literal stream without bytes is a fatal error: optimize() after the
\* (empty) scoring pass fails, and so does merge(), instead of returning a bit vector.
C12_EmptyStreamFails ==
  Len(data) = 0 =>
    /\ pc # "score" => (pc = "failed" /\ out.err # "none")
    /\ \A restarts \in {<<>>, <<0>>} : merge(data, isGif, best, restarts, opt).err # "none"

\* the last iteration of the loop looked for a match at blk.prev.i and wrote its code;
\* blk.st.match holds the greedy length and the length chosen
EmissionPoint ==
  /\ pc \in {"loop", "returned"}
  /\ blk.prev.matchLength = 0
  /\ blk.st.i = blk.prev.i + 1

\* C16: without --splitruns, in non-greedy mode, at an emission point where all bytes of
\* the greedy match are equal the lookahead is skipped: the emitted match is the greedy
\* one and the block's count of non-greedy matches stays as it was.
C16_RunGuard ==
  (/\ EmissionPoint
   /\ ~blk.o.greedy /\ ~blk.o.splitRuns
   /\ \A k \in 0..(blk.st.match.greedy - 1) : At(data, blk.prev.i + k) = At(data, blk.prev.i))
    => /\ blk.st.match.len = blk.st.match.greedy
       /\ blk.st.numNonGreedy = blk.prev.numNonGreedy

\* s + find_match(i + s) at the emission point, in the dictionary as it was before the
\* match was added
PairAt(s) ==
  s + findMatch(data, blk.prev.dict, blk.prev.i + s,
                blk.length + blk.from - blk.prev.i - s)

\* the shorter lengths whose pair beats the greedy pair by min_improvement or more
Improving ==
  { s \in 1..(blk.st.match.greedy - 1) :
      PairAt(s) >= PairAt(blk.st.match.greedy) + blk.o.minImprovement }

\* C17: where the lookahead runs, the emitted length is the greedy length L unless some
\* s in 1..L-1 has s + find_match(i+s) >= L + find_match(i+L) + min_improvement; then it
\* is the largest s that attains the maximum of s + find_match(i+s), and the count of
\* non-greedy matches grows by exactly one.
C17_NonGreedyChoice ==
  (EmissionPoint /\ blk.st.match.lookahead) =>
    IF Improving = {}
    THEN /\ blk.st.match.len = blk.st.match.greedy
         /\ blk.st.numNonGreedy = blk.prev.numNonGreedy
    ELSE /\ blk.st.match.len \in 1..(blk.st.match.greedy - 1)
         /\ \A s \in 1..(blk.st.match.greedy - 1) :
              \/ PairAt(s) < PairAt(blk.st.match.len)
              \/ PairAt(s) = PairAt(blk.st.match.len) /\ s <= blk.st.match.len
         /\ blk.st.numNonGreedy = blk.prev.numNonGreedy + 1

\* two shorter lengths give the same longest pair, and the larger of them was emitted
C17_Witness ==
  /\ EmissionPoint /\ blk.st.match.lookahead
  /\ \E s \in Improving : s < blk.st.match.len /\ PairAt(s) = PairAt(blk.st.match.len)
  /\ blk.st.match.len < blk.st.match.greedy
  /\ blk.st.numNonGreedy = blk.prev.numNonGreedy + 1

\* the number of input bytes past the greedy match of the emission point
PastMatch == Len(data) - (blk.prev.i + blk.st.match.greedy)

\* C18 as stated: with greedy = false the lookahead is performed at an emission point if
\* and only if the greedy length L is at least min_nongreedy_match and at least four input
\* bytes remain past the match.
C18_LookaheadAtFour ==
  (EmissionPoint /\ ~blk.o.greedy) =>
    (blk.st.match.lookahead <=>
       (blk.st.match.greedy >= blk.o.minNonGreedyMatch /\ PastMatch >= 4))

\* C18, amended: with greedy = false the lookahead is performed at an emission point if
\* and only if the greedy length L is at least 2 and at least min_nongreedy_match, and
\* more than four input bytes remain past the match (N - (i + L) >= 5).
C18_LookaheadPrecondition ==
  (EmissionPoint /\ ~blk.o.greedy) =>
    (blk.st.match.lookahead <=>
       (/\ blk.st.match.greedy >= 2
        /\ blk.st.match.greedy >= blk.o.minNonGreedyMatch
        /\ PastMatch >= 5))

\* the lookahead ran with exactly five bytes past the greedy match
C18_Witness ==
  /\ EmissionPoint /\ ~blk.o.greedy
  /\ PastMatch = 5
  /\ blk.st.match.greedy >= blk.o.minNonGreedyMatch
  /\ blk.st.match.lookahead

\* C20: within one block a child entry that addCode has set keeps its value: no later
\* iteration of the block's loop, greedy or non-greedy, changes it; a block starts with
\* all entries unset.
C20_ChildrenKept ==
  pc \in {"loop", "returned"} =>
    /\ \A p \in DOMAIN blk.prev.dict :
         blk.prev.dict[p] # Unknown => Child(blk.st.dict, p[1], p[2]) = blk.prev.dict[p]
    /\ blk.st.i = blk.from => \A p \in DOMAIN blk.st.dict : blk.st.dict[p] = Unknown

\* addCode was called for a child entry that was set already (a shortened match): the
\* counter advanced, the entry kept its value
C20_Witness ==
  /\ EmissionPoint
  /\ blk.st.match.len < blk.st.match.greedy
  /\ blk.st.dictSize = blk.prev.dictSize + 1
  /\ blk.st.dict = blk.prev.dict
  /\ \E p \in DOMAIN blk.st.dict : blk.st.dict[p] # Unknown

(***************************************************************************)
(* Properties of the bit readers                                           *)
(***************************************************************************)
\* C25: GIF sub-blocks are transparent: however the payload is split into sub-blocks of
\* 1 to 255 bytes, every code the decoder reads through getLzwBits is the code read at
\* the same place of the unframed payload, and the read raises no error.
C25_SubBlockTransparent ==
  pc = "read" => (dec.lzw.err = "none" /\ dec.lzw.val = dec.buf.val)

\* C30: BinaryInputBuffer is LSB-first and chunk-independent: wherever a sequence of
\* reads has left the buffer, a read of n <= 16 bits within the stream returns the next
\* n bits of the bytes, the first bit of a byte being its bit 0; a read of a bits
\* followed by a read of n - a bits returns x and y with x + y * 2^a the value of the
\* single read; and peekBits(n) returns what the next getBits(n) returns and leaves
\* the number of bits left as it is.
C30_ChunkIndependent ==
  pc = "read" =>
    \A n \in 0..MaxPeekBits :
      n <= dec.buf.bitsLeft =>
        LET Split(whole, a, x) ==
              LET Second(y) == x.val + y.val * 2^a = whole.val /\ y.bitsLeft = whole.bitsLeft
              IN  x.err = "none" /\ Second(getBitsBuffered(data, x, n - a))
            Peeked(whole, p) ==
              /\ p.val = whole.val
              /\ p.bitsLeft = dec.buf.bitsLeft
              /\ getBitsBuffered(data, p, n).val = whole.val
            Read(whole) ==
              /\ whole.err = "none"
              /\ whole.val = FileBits(data, 8 * Len(data) - dec.buf.bitsLeft, n)
              /\ whole.bitsLeft = dec.buf.bitsLeft - n
              /\ Peeked(whole, peekBitsBuffered(data, dec.buf, n))
              /\ \A a \in 0..n : Split(whole, a, getBitsBuffered(data, dec.buf, a))
        IN  Read(getBitsBuffered(data, dec.buf, n))

\* a buffer that holds fetched bits, inside a byte, with 16 bits or more to come
C30_Witness ==
  /\ pc = "read"
  /\ dec.buf.bitBufferSize > 0
  /\ dec.buf.bitsLeft % 8 # 0
  /\ dec.buf.bitsLeft >= MaxPeekBits
  /\ \E i, j \in DOMAIN data : data[i] # data[j]

(***************************************************************************)
(* Properties of setInterlacing                                            *)
(***************************************************************************)
\* C28: de-interlacing is the inverse of interlacing: for every height >= 2 and every
\* width, setInterlacing(false) on rows stored in the four-pass order puts every row at
\* its true position and reads nothing outside the pixel array
C28_DeinterlaceInverts ==
  (/\ pc = "image"
   /\ loaded.call.reordered /\ ~loaded.call.makeInterlaced
   /\ loaded.height >= 2
   /\ loaded.call.before = [i \in 1..Len(data) |->
                              data[PassOrder(loaded.height)[(i - 1) \div loaded.width + 1] * loaded.width
                                   + ((i - 1) % loaded.width) + 1]])
    => (loaded.frames[1].pixels = data /\ "pixels" \notin loaded.call.outside)

\* C29: the position recorded for the interlace flag is an index into m_rawHeader, and
\* the byte there is the flags byte of the frame's local descriptor
C29_FlagPositionValid ==
  (pc = "image" /\ loaded.err = "none" /\ Len(loaded.frames) = 1) =>
    LET posInterlaced == loaded.frames[1].posInterlaced
    IN  /\ posInterlaced < Len(loaded.rawHeader)
        /\ loaded.rawHeader[posInterlaced + 1] = input[Len(input)]

====
